---- MODULE Spec2Model ----
(***************************************************************************)
(* Model of the schema-normalization and data-generation core of the       *)
(* d360-assistant backend: backend/yaml_schema.py (normalizer and JSON     *)
(* Schema projection) and backend/generators.py (seeded DataGenerator).    *)
(*                                                                         *)
(* Conventions.  An optional value (Python None / a missing dict key) is   *)
(* the empty sequence <<>>, a present value v is <<v>>.  A Python dict is  *)
(* a sequence of <<key, value>> pairs with distinct keys, in insertion     *)
(* order.  Strings are TLA+ strings, read character by character with      *)
(* SubSeq.                                                                  *)
(*                                                                         *)
(* Specifications.  Spec runs the normalizer and its helpers on bounded    *)
(* sets of inputs; SpecGenerators runs DataGenerator instances side by     *)
(* side; SpecOneGenerator follows a single instance.                       *)
(***************************************************************************)
EXTENDS Integers, Sequences, FiniteSets, TLC

VARIABLES
    pc,     \* position of the run: which operation is exercised and how far it got
    arg,    \* the inputs of the operation under check
    ret,    \* what the operation returned (or the error it raised)
    now,    \* the wall clock read by datetime.utcnow(), in seconds
    gens    \* the DataGenerator instances: seed, random streams, records returned

vars == <<pc, arg, ret, now, gens>>

None == <<>>
Some(x) == <<x>>
IsSome(o) == o # <<>>
Get(o) == o[1]

(***************************************************************************)
(* Python str methods                                                      *)
(***************************************************************************)
UPPERCASE == "ABCDEFGHIJKLMNOPQRSTUVWXYZ"
LOWERCASE == "abcdefghijklmnopqrstuvwxyz"

Char(s, i) == SubSeq(s, i, i)

\* 0 when c does not occur in s, else the position of its first occurrence
IndexIn(c, s) ==
    IF \E i \in 1..Len(s) : Char(s, i) = c
    THEN CHOOSE i \in 1..Len(s) : Char(s, i) = c /\ \A j \in 1..(i-1) : Char(s, j) # c
    ELSE 0

isupper(c) == IndexIn(c, UPPERCASE) > 0

lowerChar(c) == IF isupper(c) THEN Char(LOWERCASE, IndexIn(c, UPPERCASE)) ELSE c

RECURSIVE lower(_)
lower(s) == IF Len(s) = 0 THEN "" ELSE lowerChar(Char(s, 1)) \o lower(SubSeq(s, 2, Len(s)))

endswith(s, suf) == Len(s) >= Len(suf) /\ SubSeq(s, Len(s) - Len(suf) + 1, Len(s)) = suf

startswith(s, pre) == Len(s) >= Len(pre) /\ SubSeq(s, 1, Len(pre)) = pre

\* Python `sub in s` for a non-empty sub
contains(s, sub) == \E i \in 1..(Len(s) - Len(sub) + 1) : SubSeq(s, i, i + Len(sub) - 1) = sub

(***************************************************************************)
(* yaml_schema._map_type_to_field_type                                     *)
(***************************************************************************)
type_mapping ==
    << <<"string", "STRING">>, <<"str", "STRING">>, <<"text", "STRING">>,
       <<"integer", "INTEGER">>, <<"int", "INTEGER">>, <<"long", "INTEGER">>,
       <<"number", "NUMBER">>, <<"float", "NUMBER">>, <<"double", "NUMBER">>,
       <<"decimal", "NUMBER">>,
       <<"boolean", "BOOLEAN">>, <<"bool", "BOOLEAN">>,
       <<"date", "DATE">>, <<"datetime", "DATETIME">>, <<"timestamp", "DATETIME">>,
       <<"object", "OBJECT">>, <<"array", "ARRAY">>, <<"list", "ARRAY">> >>

\* dict.get(key, default) on a sequence of pairs
TableGet(table, key, default) ==
    IF \E i \in 1..Len(table) : table[i][1] = key
    THEN table[CHOOSE i \in 1..Len(table) : table[i][1] = key][2]
    ELSE default

\* the buggy variant: the type string is looked up as written, without lower()
MapTypeCaseSensitive(type_str, format_str) ==
    LET format_lower == IF IsSome(format_str) THEN lower(Get(format_str)) ELSE ""
    IN  IF format_lower \in {"date", "date-only"} THEN "DATE"
        ELSE IF format_lower \in {"datetime", "date-time", "iso8601"} THEN "DATETIME"
        ELSE TableGet(type_mapping, type_str, "STRING")

\* format_str is None or Some(string); `if format_str:` is false for None and ""
map_type_to_field_type(type_str, format_str) ==
    LET type_lower == lower(type_str)
        format_lower == IF IsSome(format_str) THEN lower(Get(format_str)) ELSE ""
    IN  IF format_lower \in {"date", "date-only"} THEN "DATE"
        ELSE IF format_lower \in {"datetime", "date-time", "iso8601"} THEN "DATETIME"
        ELSE TableGet(type_mapping, type_lower, "STRING")

(***************************************************************************)
(* A field definition (the dict under one property name).  Every key the   *)
(* normalizer reads is a field of the record; an absent key is None.       *)
(***************************************************************************)
Def0 ==
    [type |-> None, format |-> None, items |-> None, enum |-> None,
     description |-> None, title |-> None,
     minimum |-> None, maximum |-> None, min |-> None, max |-> None,
     exclusiveMinimum |-> None, exclusiveMaximum |-> None,
     minLength |-> None, maxLength |-> None, pattern |-> None,
     primaryKey |-> FALSE, primary_key |-> FALSE,
     properties |-> None, required |-> None,
     name |-> None, fieldName |-> None]

(***************************************************************************)
(* yaml_schema._extract_constraints: a sequence of independent `if`s, each *)
(* of which overwrites what an earlier one stored.                         *)
(***************************************************************************)
Constraints0 ==
    [min_value |-> None, max_value |-> None, min_length |-> None,
     max_length |-> None, pattern |-> None]

\* the variant in which an alias is stored only while the slot is still empty
ExtractFirstPresent(field_def) ==
    LET SetIfEmpty(c, slot, v) == IF IsSome(v) /\ ~IsSome(c[slot]) THEN [c EXCEPT ![slot] = v] ELSE c
        c1 == SetIfEmpty(Constraints0, "min_value", field_def.minimum)
        c2 == SetIfEmpty(c1, "max_value", field_def.maximum)
        c3 == SetIfEmpty(c2, "min_value", field_def.min)
        c4 == SetIfEmpty(c3, "max_value", field_def.max)
        c5 == SetIfEmpty(c4, "min_value", field_def.exclusiveMinimum)
        c6 == SetIfEmpty(c5, "max_value", field_def.exclusiveMaximum)
        c7 == SetIfEmpty(c6, "min_length", field_def.minLength)
        c8 == SetIfEmpty(c7, "max_length", field_def.maxLength)
    IN  SetIfEmpty(c8, "pattern", field_def.pattern)

extract_constraints(field_def) ==
    LET SetIf(c, slot, v) == IF IsSome(v) THEN [c EXCEPT ![slot] = v] ELSE c
        c1 == SetIf(Constraints0, "min_value", field_def.minimum)
        c2 == SetIf(c1, "max_value", field_def.maximum)
        c3 == SetIf(c2, "min_value", field_def.min)
        c4 == SetIf(c3, "max_value", field_def.max)
        c5 == SetIf(c4, "min_value", field_def.exclusiveMinimum)
        c6 == SetIf(c5, "max_value", field_def.exclusiveMaximum)
        c7 == SetIf(c6, "min_length", field_def.minLength)
        c8 == SetIf(c7, "max_length", field_def.maxLength)
    IN  SetIf(c8, "pattern", field_def.pattern)

(***************************************************************************)
(* yaml_schema._is_likely_primary_key                                      *)
(***************************************************************************)
primary_key_patterns == {"id", "key", "uuid", "guid"}
suffix_patterns == {"id", "key", "uuid", "guid"}
prefix_patterns == {"id_", "pk_", "uuid_", "primary_"}

\* field_name[:-len(suffix)]
PrefixBefore(field_name, suffix) == SubSeq(field_name, 1, Len(field_name) - Len(suffix))

\* the test of lines 152-159 for one suffix
SuffixMatch(field_name, suffix) ==
    /\ endswith(lower(field_name), suffix)
    /\ Len(field_name) > Len(suffix)
    /\ LET prefix == PrefixBefore(field_name, suffix)
       IN  \/ endswith(prefix, "_")
           \/ isupper(Char(prefix, Len(prefix)))
           \/ isupper(Char(field_name, Len(field_name) - Len(suffix) + 1))

\* the variant without the camelCase test of lines 157-159
IsLikelyPrimaryKeyNoCamel(field_name, field_def) ==
    LET name_lower == lower(field_name)
        description == IF IsSome(field_def.description) THEN lower(Get(field_def.description)) ELSE ""
    IN  \/ field_def.primaryKey \/ field_def.primary_key
        \/ contains(description, "primary key") \/ contains(description, "unique identifier")
        \/ name_lower \in primary_key_patterns
        \/ \E suffix \in suffix_patterns :
              /\ endswith(name_lower, suffix) /\ Len(field_name) > Len(suffix)
              /\ LET prefix == PrefixBefore(field_name, suffix)
                 IN  endswith(prefix, "_") \/ isupper(Char(prefix, Len(prefix)))
        \/ \E prefix \in prefix_patterns : startswith(name_lower, prefix)

is_likely_primary_key(field_name, field_def) ==
    LET name_lower == lower(field_name)
        description == IF IsSome(field_def.description) THEN lower(Get(field_def.description)) ELSE ""
    IN  \/ field_def.primaryKey \/ field_def.primary_key
        \/ contains(description, "primary key") \/ contains(description, "unique identifier")
        \/ name_lower \in primary_key_patterns
        \/ \E suffix \in suffix_patterns : SuffixMatch(field_name, suffix)
        \/ \E prefix \in prefix_patterns : startswith(name_lower, prefix)

(***************************************************************************)
(* Document shapes.                                                        *)
(*   properties dict : sequence of <<name, entry>>, entry one of           *)
(*       [kind |-> "dict", def |-> field definition]                       *)
(*       [kind |-> "str",  str |-> type string]      ("fieldName: string") *)
(*       [kind |-> "other"]                          (null, number, list)  *)
(*   required        : [kind |-> "list", names |-> seq] or                 *)
(*                     [kind |-> "bool", b |-> BOOLEAN]                    *)
(*   named schemas   : sequence of <<name, schema entry>>, schema entry    *)
(*       [kind |-> "dict", properties |-> opt, required |-> opt] or other  *)
(***************************************************************************)
DictEntry(def) == [kind |-> "dict", def |-> def]
StrEntry(s) == [kind |-> "str", str |-> s]
OtherEntry == [kind |-> "other"]

ReqList(names) == [kind |-> "list", names |-> names]
ReqBool(b) == [kind |-> "bool", b |-> b]

SchemaDict(props, req) == [kind |-> "dict", properties |-> props, required |-> req]

\* d.get("required", [])
GetRequired(opt) == IF IsSome(opt) THEN Get(opt) ELSE ReqList(<<>>)

\* Python truth value of a `required` entry
Truthy(opt) ==
    /\ IsSome(opt)
    /\ IF Get(opt).kind = "bool" THEN Get(opt).b ELSE Len(Get(opt).names) > 0

\* `name in required_fields`, for a list
InRequired(name, req) == \E i \in 1..Len(req.names) : req.names[i] = name

\* d[key] = value on a sequence of pairs: replaces in place, else appends
DictSet(d, key, value) ==
    IF \E i \in 1..Len(d) : d[i][1] = key
    THEN [i \in 1..Len(d) |-> IF d[i][1] = key THEN <<key, value>> ELSE d[i]]
    ELSE Append(d, <<key, value>>)

(***************************************************************************)
(* yaml_schema._parse_field.  `name in required_fields` raises TypeError   *)
(* when required_fields is a boolean (a list entry `required: true` that   *)
(* also has `properties`); ParseRaises tells whether the call raises, and  *)
(* parse_field is the SchemaField it returns otherwise.                    *)
(***************************************************************************)
SchemaField0 ==
    [field_name |-> "", field_type |-> "STRING", required |-> FALSE,
     is_primary_key |-> FALSE, enum_values |-> None, format |-> None,
     min_value |-> None, max_value |-> None, min_length |-> None,
     max_length |-> None, pattern |-> None, description |-> None,
     nested_schema |-> None]

\* a or b, for optional strings
OrElse(a, b) == IF IsSome(a) /\ Get(a) # "" THEN a ELSE b

\* field_def.get("type", "string")
TypeOf(field_def) == IF IsSome(field_def.type) THEN Get(field_def.type) ELSE "string"

FieldTypeOf(field_def) == map_type_to_field_type(TypeOf(field_def), field_def.format)

\* the variant that tests the declared type string instead of the mapped field type
NestedSourceDeclaredType(field_def) ==
    LET declared == lower(TypeOf(field_def))
    IN  IF declared = "object" /\ IsSome(field_def.properties)
        THEN Some([properties |-> Get(field_def.properties),
                   required |-> GetRequired(field_def.required)])
        ELSE IF /\ declared \in {"array", "list"} /\ IsSome(field_def.items)
                /\ Get(field_def.items).kind = "dict"
                /\ IsSome(Get(field_def.items).properties)
        THEN Some([properties |-> Get(Get(field_def.items).properties),
                   required |-> GetRequired(Get(field_def.items).required)])
        ELSE None

\* the properties that _parse_field recurses into, if any, with their required list
NestedSource(field_def) ==
    LET field_type == FieldTypeOf(field_def)
    IN  IF field_type = "OBJECT" /\ IsSome(field_def.properties)
        THEN Some([properties |-> Get(field_def.properties),
                   required |-> GetRequired(field_def.required)])
        ELSE IF /\ field_type = "ARRAY" /\ IsSome(field_def.items)
                /\ Get(field_def.items).kind = "dict"
                /\ IsSome(Get(field_def.items).properties)
        THEN Some([properties |-> Get(Get(field_def.items).properties),
                   required |-> GetRequired(Get(field_def.items).required)])
        ELSE None

RECURSIVE ParseRaises(_, _, _)
ParseRaises(field_name, field_def, required_fields) ==
    LET src == NestedSource(field_def)
    IN  \/ required_fields.kind # "list"
        \/ /\ IsSome(src)
           /\ \E i \in 1..Len(Get(src).properties) :
                 /\ Get(src).properties[i][2].kind = "dict"
                 /\ ParseRaises(Get(src).properties[i][1],
                                Get(src).properties[i][2].def, Get(src).required)

RECURSIVE parse_field(_, _, _)
RECURSIVE ParseNested(_, _, _)
\* the loop `for nested_name, nested_def in ....items(): if isinstance(nested_def, dict)`
ParseNested(props, required_fields, i) ==
    IF i > Len(props) THEN <<>>
    ELSE IF props[i][2].kind = "dict"
    THEN <<parse_field(props[i][1], props[i][2].def, required_fields)>>
            \o ParseNested(props, required_fields, i + 1)
    ELSE ParseNested(props, required_fields, i + 1)

parse_field(field_name, field_def, required_fields) ==
    LET constraints == extract_constraints(field_def)
        src == NestedSource(field_def)
    IN  [field_name |-> field_name,
         field_type |-> FieldTypeOf(field_def),
         required |-> InRequired(field_name, required_fields),
         is_primary_key |-> is_likely_primary_key(field_name, field_def),
         enum_values |-> field_def.enum,
         format |-> field_def.format,
         min_value |-> constraints.min_value,
         max_value |-> constraints.max_value,
         min_length |-> constraints.min_length,
         max_length |-> constraints.max_length,
         pattern |-> constraints.pattern,
         description |-> OrElse(field_def.description, field_def.title),
         nested_schema |-> IF IsSome(src)
                           THEN Some(ParseNested(Get(src).properties, Get(src).required, 1))
                           ELSE None]

(***************************************************************************)
(* The document root.  Its keys are read by name only, so it is a record   *)
(* of the keys normalize_schema looks at; `extra` holds further root keys  *)
(* (a sequence of <<key, schema entry>>) that a $ref may point into.       *)
(*   components : opt [schemas |-> opt named schemas]                      *)
(*   schema     : opt [kind |-> "dict", fields |-> opt list,               *)
(*                     properties |-> opt, required |-> opt] or other      *)
(*   fields     : opt list of entries (dict entries or other)              *)
(*   paths      : opt sequence of <<path, [kind |-> "dict", methods |->    *)
(*                seq of <<method, [kind |-> "dict", schema |-> node]>>]>> *)
(*                where node is the application/json request-body schema   *)
(*                [properties |-> opt, required |-> opt, ref |-> opt];     *)
(*                the chain requestBody.content["application/json"].schema *)
(*                of .get(..., {}) calls is one node, all None if missing  *)
(***************************************************************************)
Root0 ==
    [properties |-> None, required |-> None, components |-> None,
     definitions |-> None, types |-> None, schema |-> None, fields |-> None,
     paths |-> None, extra |-> <<>>]

Node0 == [properties |-> None, required |-> None, ref |-> None]

\* what the branches of normalize_schema leave in (properties, required_fields)
Sel0 == [properties |-> <<>>, required |-> ReqList(<<>>)]
Sel(props, req) == [properties |-> props, required |-> GetRequired(req)]

\* `for name, d in schemas.items(): if isinstance(d, dict) and "properties" in d: ...; break`
RECURSIVE FirstWithProperties(_, _)
FirstWithProperties(named, i) ==
    IF i > Len(named) THEN Sel0
    ELSE IF named[i][2].kind = "dict" /\ IsSome(named[i][2].properties)
    THEN Sel(Get(named[i][2].properties), named[i][2].required)
    ELSE FirstWithProperties(named, i + 1)

\* the variant that reads the `fieldName` key only
ListFieldNameOnly(def) == IF IsSome(def.fieldName) THEN Get(def.fieldName) ELSE ""

\* field.get("name", field.get("fieldName", ""))
ListFieldName(def) ==
    IF IsSome(def.name) THEN Get(def.name)
    ELSE IF IsSome(def.fieldName) THEN Get(def.fieldName) ELSE ""

\* the loop over a `fields` list (lines 302-308 and 315-321)
RECURSIVE FromFieldList(_, _, _)
FromFieldList(list, i, sel) ==
    IF i > Len(list) THEN sel
    ELSE IF list[i].kind = "dict" /\ ListFieldName(list[i].def) # ""
    THEN LET field_name == ListFieldName(list[i].def)
             props == DictSet(sel.properties, field_name, list[i])
             req == IF Truthy(list[i].def.required)
                    THEN ReqList(Append(sel.required.names, field_name))
                    ELSE sel.required
         IN  FromFieldList(list, i + 1, [properties |-> props, required |-> req])
    ELSE FromFieldList(list, i + 1, sel)

\* str.split(sep) for a one-character separator
RECURSIVE split(_, _)
split(s, sep) ==
    IF \E i \in 1..Len(s) : Char(s, i) = sep
    THEN LET i == IndexIn(sep, s)
         IN  <<SubSeq(s, 1, i - 1)>> \o split(SubSeq(s, i + 1, Len(s)), sep)
    ELSE <<s>>

(***************************************************************************)
(* $ref resolution (lines 340-349): walk the parts from the root, skipping *)
(* "#" and every part that is not a key of the current dict.  The walk is  *)
(* over the root's `extra` keys; a part that names another present root    *)
(* key, or a key inside a schema dict, leads to a value without a          *)
(* `properties` key of its own (kind "leaf").                              *)
(***************************************************************************)
RootHasKey(yaml_data, part) ==
    \/ part = "components" /\ IsSome(yaml_data.components)
    \/ part = "paths" /\ IsSome(yaml_data.paths)
    \/ part = "required" /\ IsSome(yaml_data.required)

RefStep(yaml_data, node, part) ==
    IF part = "#" THEN node
    ELSE IF node.kind = "root"
    THEN IF \E i \in 1..Len(yaml_data.extra) : yaml_data.extra[i][1] = part
         THEN LET e == TableGet(yaml_data.extra, part, OtherEntry)
              IN  IF e.kind = "dict"
                  THEN [kind |-> "schema", properties |-> e.properties, required |-> e.required]
                  ELSE [kind |-> "leaf"]
         ELSE IF RootHasKey(yaml_data, part) THEN [kind |-> "leaf"] ELSE node
    ELSE IF node.kind = "schema"
    THEN IF \/ part = "properties" /\ IsSome(node.properties)
            \/ part = "required" /\ IsSome(node.required)
         THEN [kind |-> "leaf"] ELSE node
    ELSE node

RECURSIVE RefWalk(_, _, _, _)
RefWalk(yaml_data, node, parts, i) ==
    IF i > Len(parts) THEN node
    ELSE RefWalk(yaml_data, RefStep(yaml_data, node, parts[i]), parts, i + 1)

\* what one operation's request-body schema yields: Some(selection) when the
\* inner loop breaks on it, None when the scan goes on
OperationHit(yaml_data, node) ==
    IF IsSome(node.properties) THEN Some(Sel(Get(node.properties), node.required))
    ELSE IF IsSome(node.ref)
    THEN LET ref_schema == RefWalk(yaml_data, [kind |-> "root"], split(Get(node.ref), "/"), 1)
         IN  IF ref_schema.kind = "schema" /\ IsSome(ref_schema.properties)
             THEN Some(Sel(Get(ref_schema.properties), ref_schema.required))
             ELSE None
    ELSE None

\* the inner loop over one path's methods: the first POST/PUT/PATCH hit, then break
RECURSIVE PathHit(_, _, _)
PathHit(yaml_data, methods, j) ==
    IF j > Len(methods) THEN None
    ELSE IF /\ lower(methods[j][1]) \in {"post", "put", "patch"}
            /\ methods[j][2].kind = "dict"
            /\ IsSome(OperationHit(yaml_data, methods[j][2].schema))
    THEN OperationHit(yaml_data, methods[j][2].schema)
    ELSE PathHit(yaml_data, methods, j + 1)

\* the outer loop over the paths: the break leaves only the inner loop, so every
\* later path with a hit overwrites the selection
RECURSIVE FromPaths(_, _, _, _)
FromPaths(yaml_data, paths, i, sel) ==
    IF i > Len(paths) THEN sel
    ELSE IF paths[i][2].kind = "dict" /\ IsSome(PathHit(yaml_data, paths[i][2].methods, 1))
    THEN FromPaths(yaml_data, paths, i + 1, Get(PathHit(yaml_data, paths[i][2].methods, 1)))
    ELSE FromPaths(yaml_data, paths, i + 1, sel)

HasSchemas(yaml_data) ==
    IsSome(yaml_data.components) /\ IsSome(Get(yaml_data.components).schemas)

\* the variant that looks at root `fields` before `schema`
DialectFieldsFirst(yaml_data) ==
    IF IsSome(yaml_data.properties) THEN 1
    ELSE IF HasSchemas(yaml_data) THEN 2
    ELSE IF IsSome(yaml_data.definitions) THEN 3
    ELSE IF IsSome(yaml_data.types) THEN 4
    ELSE IF IsSome(yaml_data.fields) THEN 6
    ELSE IF IsSome(yaml_data.schema) THEN 5
    ELSE IF IsSome(yaml_data.paths) THEN 7
    ELSE 0

\* the dialect (1..7) whose branch of the if/elif chain is taken, 0 if none
Dialect(yaml_data) ==
    IF IsSome(yaml_data.properties) THEN 1
    ELSE IF HasSchemas(yaml_data) THEN 2
    ELSE IF IsSome(yaml_data.definitions) THEN 3
    ELSE IF IsSome(yaml_data.types) THEN 4
    ELSE IF IsSome(yaml_data.schema) THEN 5
    ELSE IF IsSome(yaml_data.fields) THEN 6
    ELSE IF IsSome(yaml_data.paths) THEN 7
    ELSE 0

\* (properties, required_fields) after the branch of dialect k has run
SelectFrom(yaml_data, k) ==
    CASE k = 1 -> Sel(Get(yaml_data.properties), yaml_data.required)
      [] k = 2 -> FirstWithProperties(Get(Get(yaml_data.components).schemas), 1)
      [] k = 3 -> FirstWithProperties(Get(yaml_data.definitions), 1)
      [] k = 4 -> FirstWithProperties(Get(yaml_data.types), 1)
      [] k = 5 -> LET schema == Get(yaml_data.schema)
                  IN  IF schema.kind # "dict" THEN Sel0
                      ELSE IF IsSome(schema.fields)
                      THEN FromFieldList(Get(schema.fields), 1, Sel0)
                      ELSE IF IsSome(schema.properties)
                      THEN Sel(Get(schema.properties), schema.required)
                      ELSE Sel0
      [] k = 6 -> FromFieldList(Get(yaml_data.fields), 1, Sel0)
      [] k = 7 -> FromPaths(yaml_data, Get(yaml_data.paths), 1, Sel0)
      [] OTHER -> Sel0

(***************************************************************************)
(* yaml_schema.normalize_schema.  The result is                            *)
(*   [error |-> "",  message |-> "", fields |-> Some(list)]  on return     *)
(*   [error |-> exception class, message |-> text, fields |-> None]        *)
(***************************************************************************)
Returned(fields) == [error |-> "", message |-> "", fields |-> Some(fields)]
Raised(error, message) == [error |-> error, message |-> message, fields |-> None]

SchemaFormatMessage ==
    "Could not find schema properties in YAML. Expected formats: OpenAPI, RAML, or direct 'properties'/'fields' definition."

\* the loop of lines 363-372
RECURSIVE ParseTop(_, _, _)
ParseTop(props, required_fields, i) ==
    IF i > Len(props) THEN <<>>
    ELSE IF props[i][2].kind = "dict"
    THEN <<parse_field(props[i][1], props[i][2].def, required_fields)>>
            \o ParseTop(props, required_fields, i + 1)
    ELSE IF props[i][2].kind = "str"
    THEN <<[SchemaField0 EXCEPT !.field_name = props[i][1],
                                !.field_type = map_type_to_field_type(props[i][2].str, None),
                                !.required = InRequired(props[i][1], required_fields)]>>
            \o ParseTop(props, required_fields, i + 1)
    ELSE ParseTop(props, required_fields, i + 1)

TopRaises(props, required_fields) ==
    \E i \in 1..Len(props) :
        \/ props[i][2].kind = "dict" /\ ParseRaises(props[i][1], props[i][2].def, required_fields)
        \/ props[i][2].kind = "str" /\ required_fields.kind # "list"

\* the variant without the `if not properties: raise`
NormalizeSelectedNoCheck(sel) ==
    IF TopRaises(sel.properties, sel.required)
    THEN Raised("TypeError", "argument of type 'bool' is not iterable")
    ELSE Returned(ParseTop(sel.properties, sel.required, 1))

NormalizeSelected(sel) ==
    IF Len(sel.properties) = 0 THEN Raised("YAMLSchemaParseError", SchemaFormatMessage)
    ELSE IF TopRaises(sel.properties, sel.required)
    THEN Raised("TypeError", "argument of type 'bool' is not iterable")
    ELSE Returned(ParseTop(sel.properties, sel.required, 1))

normalize_schema(yaml_data) == NormalizeSelected(SelectFrom(yaml_data, Dialect(yaml_data)))

(***************************************************************************)
(* yaml_schema.fields_to_json_schema                                       *)
(***************************************************************************)
\* FieldType.value
TypeValue(field_type) == lower(field_type)

\* `if x:` for an optional string or list
NonEmpty(o) == IsSome(o) /\ Len(Get(o)) > 0

RECURSIVE fields_to_json_schema(_)
RECURSIVE ToProperties(_, _, _)
RECURSIVE RequiredNames(_, _)

RequiredNames(fields, i) ==
    IF i > Len(fields) THEN <<>>
    ELSE (IF fields[i].required THEN <<fields[i].field_name>> ELSE <<>>)
            \o RequiredNames(fields, i + 1)

\* the `prop` dict built for one field (lines 436-470)
PropOf(field) ==
    LET nested == IF NonEmpty(field.nested_schema)
                  THEN fields_to_json_schema(Get(field.nested_schema)) ELSE Root0
        base == [Def0 EXCEPT
                   !.type = Some(TypeValue(field.field_type)),
                   !.enum = IF NonEmpty(field.enum_values) THEN field.enum_values ELSE None,
                   !.format = IF NonEmpty(field.format) THEN field.format ELSE None,
                   !.minimum = field.min_value,
                   !.maximum = field.max_value,
                   !.minLength = field.min_length,
                   !.maxLength = field.max_length,
                   !.pattern = IF NonEmpty(field.pattern) THEN field.pattern ELSE None,
                   !.description = IF NonEmpty(field.description) THEN field.description ELSE None]
    IN  IF NonEmpty(field.nested_schema) /\ field.field_type = "OBJECT"
        THEN [base EXCEPT !.properties = nested.properties, !.required = nested.required]
        ELSE IF NonEmpty(field.nested_schema) /\ field.field_type = "ARRAY"
        THEN [base EXCEPT !.items = Some(SchemaDict(nested.properties, nested.required))]
        ELSE base

ToProperties(fields, i, properties) ==
    IF i > Len(fields) THEN properties
    ELSE ToProperties(fields, i + 1,
                      DictSet(properties, fields[i].field_name, DictEntry(PropOf(fields[i]))))

fields_to_json_schema(fields) ==
    LET required == RequiredNames(fields, 1)
    IN  [Root0 EXCEPT !.properties = Some(ToProperties(fields, 1, <<>>)),
                      !.required = IF Len(required) > 0 THEN Some(ReqList(required)) ELSE None]

(***************************************************************************)
(* The documents the normalizer is run on.                                 *)
(*                                                                         *)
(* A logical field is [name, entry, req]; a logical schema is a sequence   *)
(* of at most MaxFields of them with distinct names, written in each of    *)
(* the encodings 1..9 (the 7 dialects; `schema` and `paths` have two       *)
(* forms each).                                                            *)
(***************************************************************************)
MaxFields == 2

TypeDef(t) == [Def0 EXCEPT !.type = Some(t)]

CityProps == << <<"city", DictEntry(TypeDef("string"))>>, <<"zip", OtherEntry>> >>

LogicalFields ==
    << [name |-> "id", entry |-> DictEntry(TypeDef("string")), req |-> TRUE],
       [name |-> "amount", entry |-> DictEntry(TypeDef("number")), req |-> FALSE],
       [name |-> "address",
        entry |-> DictEntry([TypeDef("object") EXCEPT
                               !.properties = Some(CityProps),
                               !.required = Some(ReqList(<<"city">>))]),
        req |-> FALSE],
       [name |-> "when",
        entry |-> DictEntry([TypeDef("object") EXCEPT
                               !.format = Some("date-time"),
                               !.properties = Some(CityProps)]),
        req |-> TRUE],
       [name |-> "tags",
        entry |-> DictEntry([TypeDef("array") EXCEPT
                               !.items = Some(SchemaDict(Some(CityProps), Some(ReqList(<<"city">>))))]),
        req |-> FALSE],
       [name |-> "note", entry |-> StrEntry("Text"), req |-> FALSE],
       [name |-> "junk", entry |-> OtherEntry, req |-> TRUE],
       [name |-> "score",
        entry |-> DictEntry([TypeDef("Integer") EXCEPT
                               !.minimum = Some(1), !.exclusiveMinimum = Some(2),
                               !.max = Some(9), !.maxLength = Some(4),
                               !.enum = Some(<<"a", "b">>),
                               !.description = Some(""), !.title = Some("Score")]),
        req |-> FALSE],
       [name |-> "meta",
        entry |-> DictEntry([TypeDef("string") EXCEPT !.properties = Some(CityProps)]),
        req |-> FALSE],
       [name |-> "box",
        entry |-> DictEntry([TypeDef("object") EXCEPT !.properties = Some(<<>>)]),
        req |-> TRUE] >>

\* the sequences of 1..MaxFields distinct logical fields
LogicalSchemas ==
    UNION { { [i \in 1..n |-> LogicalFields[ix[i]]] :
                ix \in { f \in [1..n -> 1..Len(LogicalFields)] :
                            \A a, b \in 1..n : a # b => f[a] # f[b] } } :
            n \in 1..MaxFields }

AsProperties(ls) == [i \in 1..Len(ls) |-> <<ls[i].name, ls[i].entry>>]

RECURSIVE ReqNamesOf(_, _)
ReqNamesOf(ls, i) ==
    IF i > Len(ls) THEN <<>>
    ELSE (IF ls[i].req THEN <<ls[i].name>> ELSE <<>>) \o ReqNamesOf(ls, i + 1)

AsRequired(ls) == IF Len(ReqNamesOf(ls, 1)) > 0 THEN Some(ReqList(ReqNamesOf(ls, 1))) ELSE None

\* one entry of a `fields` list: the definition with its `name` and `required: true`
AsListEntry(lf) ==
    IF lf.entry.kind = "dict"
    THEN DictEntry([lf.entry.def EXCEPT
                      !.name = Some(lf.name),
                      !.required = IF lf.req THEN Some(ReqBool(TRUE)) ELSE lf.entry.def.required])
    ELSE OtherEntry

AsList(ls) == [i \in 1..Len(ls) |-> AsListEntry(ls[i])]

Named(ls) ==
    << <<"Meta", SchemaDict(None, None)>>, <<"Order", SchemaDict(Some(AsProperties(ls)), AsRequired(ls))>> >>

Operation(node) == [kind |-> "dict", schema |-> node]
PathItem(methods) == [kind |-> "dict", methods |-> methods]

Encodings == 1..9

Encode(ls, k) ==
    CASE k = 1 -> [Root0 EXCEPT !.properties = Some(AsProperties(ls)), !.required = AsRequired(ls)]
      [] k = 2 -> [Root0 EXCEPT !.components = Some([schemas |-> Some(Named(ls))])]
      [] k = 3 -> [Root0 EXCEPT !.definitions = Some(Named(ls))]
      [] k = 4 -> [Root0 EXCEPT !.types = Some(Named(ls))]
      [] k = 5 -> [Root0 EXCEPT !.schema =
                      Some([kind |-> "dict", fields |-> Some(AsList(ls)),
                            properties |-> None, required |-> None])]
      [] k = 6 -> [Root0 EXCEPT !.schema =
                      Some([kind |-> "dict", fields |-> None,
                            properties |-> Some(AsProperties(ls)), required |-> AsRequired(ls)])]
      [] k = 7 -> [Root0 EXCEPT !.fields = Some(AsList(ls))]
      [] k = 8 -> [Root0 EXCEPT !.paths = Some(<<
                      <<"/orders", PathItem(<<
                          <<"get", Operation(Node0)>>,
                          <<"POST", Operation([Node0 EXCEPT
                                                 !.properties = Some(AsProperties(ls)),
                                                 !.required = AsRequired(ls)])>> >>)>> >>)]
      [] k = 9 -> [Root0 EXCEPT
                     !.components = Some([schemas |-> None]),
                     !.extra = << <<"x-order", SchemaDict(Some(AsProperties(ls)), AsRequired(ls))>> >>,
                     !.paths = Some(<<
                      <<"/orders", PathItem(<<
                          <<"put", Operation([Node0 EXCEPT !.ref = Some("#/x-order")])>> >>)>> >>)]

SingleDialectDocs == { Encode(ls, k) : ls \in LogicalSchemas, k \in Encodings }

(***************************************************************************)
(* Documents whose root matches several dialects at once.  Location k is   *)
(* absent (0), present without any property (1), or present with the one   *)
(* string property DialectTag[k] (2), so that the name of a returned field *)
(* tells which location it was read from.                                  *)
(***************************************************************************)
DialectTag == <<"f1", "f2", "f3", "f4", "f5", "f6", "f7">>

TagSchema(k) == << [name |-> DialectTag[k], entry |-> DictEntry(TypeDef("string")), req |-> FALSE] >>

MultiDoc(slots) ==
    [Root0 EXCEPT
       !.properties = CASE slots[1] = 0 -> None
                        [] slots[1] = 1 -> Some(<<>>)
                        [] OTHER -> Some(AsProperties(TagSchema(1))),
       !.components = CASE slots[2] = 0 -> None
                        [] slots[2] = 1 -> Some([schemas |-> Some(<< <<"Meta", SchemaDict(None, None)>> >>)])
                        [] OTHER -> Some([schemas |-> Some(Named(TagSchema(2)))]),
       !.definitions = CASE slots[3] = 0 -> None
                         [] slots[3] = 1 -> Some(<< <<"Meta", OtherEntry>> >>)
                         [] OTHER -> Some(Named(TagSchema(3))),
       !.types = CASE slots[4] = 0 -> None
                   [] slots[4] = 1 -> Some(<<>>)
                   [] OTHER -> Some(Named(TagSchema(4))),
       !.schema = CASE slots[5] = 0 -> None
                    [] slots[5] = 1 -> Some([kind |-> "dict", fields |-> None,
                                             properties |-> None, required |-> None])
                    [] OTHER -> Some([kind |-> "dict", fields |-> Some(AsList(TagSchema(5))),
                                      properties |-> None, required |-> None]),
       !.fields = CASE slots[6] = 0 -> None
                    [] slots[6] = 1 -> Some(<<OtherEntry>>)
                    [] OTHER -> Some(AsList(TagSchema(6))),
       !.paths = CASE slots[7] = 0 -> None
                   [] slots[7] = 1 -> Some(<< <<"/ping", PathItem(<< <<"post", Operation(Node0)>> >>)>> >>)
                   [] OTHER -> Some(<< <<"/orders", PathItem(<<
                                   <<"patch", Operation([Node0 EXCEPT
                                        !.properties = Some(AsProperties(TagSchema(7)))])>> >>)>> >>)]

MultiDialectDocs == { MultiDoc(slots) : slots \in [1..7 -> 0..2] }

Docs == SingleDialectDocs \cup MultiDialectDocs

(***************************************************************************)
(* The normalizer run: normalize the document, project the field list to   *)
(* JSON Schema, normalize the projection again.                            *)
(***************************************************************************)
InitNormalize ==
    /\ pc = "normalize"
    /\ arg \in Docs
    /\ ret = None
    /\ now = 0
    /\ gens = <<>>

Normalize ==
    /\ pc = "normalize"
    /\ ret' = [normalized |-> normalize_schema(arg), schema |-> None, renormalized |-> None]
    /\ pc' = "normalized"
    /\ UNCHANGED <<arg, now, gens>>

Project ==
    /\ pc = "normalized"
    /\ ret.normalized.error = ""
    /\ ret' = [ret EXCEPT !.schema = Some(fields_to_json_schema(Get(ret.normalized.fields)))]
    /\ pc' = "projected"
    /\ UNCHANGED <<arg, now, gens>>

Renormalize ==
    /\ pc = "projected"
    /\ ret' = [ret EXCEPT !.renormalized = Some(normalize_schema(Get(ret.schema)))]
    /\ pc' = "renormalized"
    /\ UNCHANGED <<arg, now, gens>>

(***************************************************************************)
(* Properties of the normalizer run                                        *)
(***************************************************************************)
\* the root matches dialect k (the key the k-th branch tests is there)
Matches(d, k) ==
    CASE k = 1 -> IsSome(d.properties)
      [] k = 2 -> IsSome(d.components) /\ IsSome(Get(d.components).schemas)
      [] k = 3 -> IsSome(d.definitions)
      [] k = 4 -> IsSome(d.types)
      [] k = 5 -> IsSome(d.schema)
      [] k = 6 -> IsSome(d.fields)
      [] k = 7 -> IsSome(d.paths)

PropNames(props) == { props[i][1] : i \in 1..Len(props) }

OptPropNames(o) == IF IsSome(o) THEN PropNames(Get(o)) ELSE {}

ListNames(list) ==
    { ListFieldName(list[i].def) : i \in { j \in 1..Len(list) : list[j].kind = "dict" } } \ {""}

NamedNames(named) ==
    UNION { OptPropNames(named[i][2].properties) :
              i \in { j \in 1..Len(named) : named[j][2].kind = "dict" } }

OperationNames(d, item) ==
    UNION { OptPropNames(item.methods[j][2].schema.properties) :
              j \in { m \in 1..Len(item.methods) : item.methods[m][2].kind = "dict" } }

\* the property names written at dialect location k of the document
LocationNames(d, k) ==
    IF ~Matches(d, k) THEN {}
    ELSE CASE k = 1 -> PropNames(Get(d.properties))
           [] k = 2 -> NamedNames(Get(Get(d.components).schemas))
           [] k = 3 -> NamedNames(Get(d.definitions))
           [] k = 4 -> NamedNames(Get(d.types))
           [] k = 5 -> IF Get(d.schema).kind # "dict" THEN {}
                       ELSE OptPropNames(Get(d.schema).properties) \cup
                            (IF IsSome(Get(d.schema).fields)
                             THEN ListNames(Get(Get(d.schema).fields)) ELSE {})
           [] k = 6 -> ListNames(Get(d.fields))
           [] k = 7 -> NamedNames(d.extra) \cup
                       UNION { OperationNames(d, Get(d.paths)[i][2]) :
                                 i \in { p \in 1..Len(Get(d.paths)) : Get(d.paths)[p][2].kind = "dict" } }

FirstMatching(d) ==
    IF \E k \in 1..7 : Matches(d, k)
    THEN CHOOSE k \in 1..7 : Matches(d, k) /\ \A j \in 1..(k - 1) : ~Matches(d, j)
    ELSE 0

FieldNames(fields) == [i \in 1..Len(fields) |-> fields[i].field_name]
FieldTypes(fields) == [i \in 1..Len(fields) |-> fields[i].field_type]
RequiredSet(fields) == { fields[i].field_name : i \in { j \in 1..Len(fields) : fields[j].required } }

NormalizedOk == pc \in {"normalized", "projected", "renormalized"} /\ ret.normalized.error = ""

\* C1: the fields normalize_schema returns are read from the earliest dialect, in
\* the order properties, components.schemas, definitions, types, schema, fields,
\* paths, that the document root matches, and none of them from a later one.
C1_FirstDialectWins ==
    NormalizedOk =>
        LET k == FirstMatching(arg)
            fields == Get(ret.normalized.fields)
        IN  /\ k # 0
            /\ \A i \in 1..Len(fields) :
                  /\ fields[i].field_name \in LocationNames(arg, k)
                  /\ \A j \in (k + 1)..7 :
                        fields[i].field_name \notin (LocationNames(arg, j) \ LocationNames(arg, k))

C1_Witness ==
    /\ NormalizedOk
    /\ Len(Get(ret.normalized.fields)) > 0
    /\ \E j \in 1..7 : j > FirstMatching(arg) /\ LocationNames(arg, j) # {}

IdAmount == <<LogicalFields[1], LogicalFields[2]>>

Core(field) ==
    [field_name |-> field.field_name, field_type |-> field.field_type,
     required |-> field.required, is_primary_key |-> field.is_primary_key]

\* C3: the schema "required string id, optional number amount", written in any of
\* the dialects, normalizes to the same two fields: id (STRING, required, primary
\* key) followed by amount (NUMBER, optional, no primary key).
C3_DialectCoverage ==
    (pc = "normalized" /\ \E k \in Encodings : arg = Encode(IdAmount, k)) =>
        /\ ret.normalized.error = ""
        /\ [i \in 1..Len(Get(ret.normalized.fields)) |-> Core(Get(ret.normalized.fields)[i])]
              = << [field_name |-> "id", field_type |-> "STRING",
                    required |-> TRUE, is_primary_key |-> TRUE],
                   [field_name |-> "amount", field_type |-> "NUMBER",
                    required |-> FALSE, is_primary_key |-> FALSE] >>

C3_Witness ==
    /\ pc = "normalized"
    /\ arg = Encode(IdAmount, 7)
    /\ ret.normalized.error = ""
    /\ Len(Get(ret.normalized.fields)) = 2

\* C4: for every document normalize_schema accepts, normalizing the JSON Schema
\* projection of its field list succeeds and gives the same names in the same
\* order, the same types and the same required set.
C4_RoundTrip ==
    pc = "renormalized" =>
        /\ Get(ret.renormalized).error = ""
        /\ FieldNames(Get(Get(ret.renormalized).fields)) = FieldNames(Get(ret.normalized.fields))
        /\ FieldTypes(Get(Get(ret.renormalized).fields)) = FieldTypes(Get(ret.normalized.fields))
        /\ RequiredSet(Get(Get(ret.renormalized).fields)) = RequiredSet(Get(ret.normalized.fields))

\* the round trip of C4 restricted to the documents whose field list is not empty
C4_RoundTripNonEmpty ==
    (pc = "renormalized" /\ Len(Get(ret.normalized.fields)) > 0) =>
        /\ Get(ret.renormalized).error = ""
        /\ FieldNames(Get(Get(ret.renormalized).fields)) = FieldNames(Get(ret.normalized.fields))
        /\ FieldTypes(Get(Get(ret.renormalized).fields)) = FieldTypes(Get(ret.normalized.fields))
        /\ RequiredSet(Get(Get(ret.renormalized).fields)) = RequiredSet(Get(ret.normalized.fields))

RECURSIVE NestedOnlyInContainers(_)
NestedOnlyInContainers(fields) ==
    \A i \in 1..Len(fields) :
        /\ IsSome(fields[i].nested_schema) => fields[i].field_type \in {"OBJECT", "ARRAY"}
        /\ IsSome(fields[i].nested_schema) => NestedOnlyInContainers(Get(fields[i].nested_schema))

\* C8: in every field list normalize_schema returns, at every depth, a field has a
\* nested_schema only if its type is OBJECT or ARRAY; a field declared `object`
\* whose format makes it DATE or DATETIME has none.
C8_NestedOnlyForObjectArray ==
    /\ NormalizedOk => NestedOnlyInContainers(Get(ret.normalized.fields))
    /\ (pc = "renormalized" /\ Get(ret.renormalized).error = "")
          => NestedOnlyInContainers(Get(Get(ret.renormalized).fields))

C8_Witness ==
    /\ NormalizedOk
    /\ \E i, j \in 1..Len(Get(ret.normalized.fields)) :
          /\ Get(ret.normalized.fields)[i].field_name = "when"
          /\ Get(ret.normalized.fields)[i].field_type = "DATETIME"
          /\ Get(ret.normalized.fields)[i].nested_schema = None
          /\ Get(ret.normalized.fields)[j].field_type = "OBJECT"
          /\ NonEmpty(Get(ret.normalized.fields)[j].nested_schema)

(***************************************************************************)
(* The helpers of the normalizer, each run on its own inputs.              *)
(***************************************************************************)
MaxNameLen == 3
MaxBoundValue == 2

NameAlphabet == {"i", "d", "I", "D", "_", "x", "X"}

RECURSIVE Join(_)
Join(chars) == IF Len(chars) = 0 THEN "" ELSE Head(chars) \o Join(Tail(chars))

\* every string of 1..MaxNameLen characters of NameAlphabet
GeneratedNames ==
    UNION { { Join(f) : f \in [1..n -> NameAlphabet] } : n \in 1..MaxNameLen }

ExampleNames ==
    {"eventId", "record_id", "validate", "valid", "HYBRID", "paid", "PAID", "idx",
     "key", "Key", "apiKey", "api_key", "monkey", "MONKEY",
     "uuid", "UUID", "userUuid", "user_uuid", "guid", "GUID", "rowGuid", "penguid",
     "pk_order", "primary_contact", "uuid_v4", "id_number", "identity", "amount"}

MarkedDefs ==
    { Def0,
      [Def0 EXCEPT !.primaryKey = TRUE],
      [Def0 EXCEPT !.primary_key = TRUE],
      [Def0 EXCEPT !.description = Some("The Primary Key of the row")],
      [Def0 EXCEPT !.description = Some("Unique identifier")],
      [Def0 EXCEPT !.description = Some("a plain number")] }

PrimaryKeyInputs ==
    [field_name : GeneratedNames \cup ExampleNames, field_def : {Def0}]
        \cup [field_name : ExampleNames, field_def : MarkedDefs]

InitPrimaryKey ==
    /\ pc = "is_likely_primary_key"
    /\ arg \in PrimaryKeyInputs
    /\ ret = None
    /\ now = 0
    /\ gens = <<>>

IsLikelyPrimaryKey ==
    /\ pc = "is_likely_primary_key"
    /\ ret' = is_likely_primary_key(arg.field_name, arg.field_def)
    /\ pc' = "primary_key_done"
    /\ UNCHANGED <<arg, now, gens>>

RECURSIVE upper(_)
upper(s) ==
    IF Len(s) = 0 THEN ""
    ELSE (IF IndexIn(Char(s, 1), LOWERCASE) > 0
          THEN Char(UPPERCASE, IndexIn(Char(s, 1), LOWERCASE)) ELSE Char(s, 1))
            \o upper(SubSeq(s, 2, Len(s)))

TableTypes == { type_mapping[i][1] : i \in 1..Len(type_mapping) }

TypeStrings ==
    TableTypes \cup { upper(t) : t \in TableTypes }
        \cup {"String", "Integer", "TimeStamp", "Boolean", "uuid", "varchar", "any", ""}

FormatStrings ==
    { None } \cup { Some(f) : f \in {"", "date", "date-only", "datetime", "date-time", "iso8601",
                                     "Date-Time", "DATE", "email", "int64", "uuid"} }

InitMapType ==
    /\ pc = "map_type_to_field_type"
    /\ arg \in [type_str : TypeStrings, format_str : FormatStrings]
    /\ ret = None
    /\ now = 0
    /\ gens = <<>>

MapType ==
    /\ pc = "map_type_to_field_type"
    /\ ret' = map_type_to_field_type(arg.type_str, arg.format_str)
    /\ pc' = "map_type_done"
    /\ UNCHANGED <<arg, now, gens>>

BoundValues == { None } \cup { Some(v) : v \in 1..MaxBoundValue }

AliasDefs ==
    { [Def0 EXCEPT !.minimum = a, !.min = b, !.exclusiveMinimum = c,
                   !.maximum = d, !.max = e, !.exclusiveMaximum = f] :
        a \in BoundValues, b \in BoundValues, c \in BoundValues,
        d \in BoundValues, e \in BoundValues, f \in BoundValues }

InitConstraints ==
    /\ pc = "extract_constraints"
    /\ arg \in AliasDefs
    /\ ret = None
    /\ now = 0
    /\ gens = <<>>

ExtractConstraints ==
    /\ pc = "extract_constraints"
    /\ ret' = extract_constraints(arg)
    /\ pc' = "constraints_done"
    /\ UNCHANGED <<arg, now, gens>>

(***************************************************************************)
(* Properties of the helpers                                               *)
(***************************************************************************)
KeyTokens == {"id", "key", "uuid", "guid"}
KeyPrefixes == {"id_", "pk_", "uuid_", "primary_"}

NoExplicitMark(def) ==
    /\ ~def.primaryKey /\ ~def.primary_key
    /\ LET d == IF IsSome(def.description) THEN lower(Get(def.description)) ELSE ""
       IN  ~contains(d, "primary key") /\ ~contains(d, "unique identifier")

\* the name ends with the token (whatever its case) and has a character before it
EndsWithToken(name, tok) ==
    Len(name) > Len(tok) /\ lower(SubSeq(name, Len(name) - Len(tok) + 1, Len(name))) = tok

CharBefore(name, tok) == Char(name, Len(name) - Len(tok))
TokenStart(name, tok) == Char(name, Len(name) - Len(tok) + 1)

NameIsToken(name) == lower(name) \in KeyTokens
NameHasKeyPrefix(name) == \E p \in KeyPrefixes : startswith(lower(name), p)

\* (b) as the claim words it: the character before the token is `_` or uppercase
TokenAfterBoundary(name) ==
    \E tok \in KeyTokens :
        /\ EndsWithToken(name, tok)
        /\ (CharBefore(name, tok) = "_" \/ isupper(CharBefore(name, tok)))

\* (b) as the code has it: ... or the token itself starts with an uppercase letter
TokenStartsWord(name) ==
    \E tok \in KeyTokens :
        /\ EndsWithToken(name, tok)
        /\ \/ CharBefore(name, tok) = "_"
           \/ isupper(CharBefore(name, tok))
           \/ isupper(TokenStart(name, tok))

PrimaryKeyDone == pc = "primary_key_done" /\ NoExplicitMark(arg.field_def)

\* C5 as stated: with no explicit flag and no description match, is_primary_key is
\* true exactly when (a) the lowercased name is id, key, uuid or guid, or (b) the
\* name ends with such a token and the character before the token is `_` or
\* uppercase, or (c) the name starts with id_, pk_, uuid_ or primary_.
C5_AsStated ==
    PrimaryKeyDone =>
        (ret <=> (NameIsToken(arg.field_name) \/ TokenAfterBoundary(arg.field_name)
                    \/ NameHasKeyPrefix(arg.field_name)))

\* C5 amended: in (b) the token starts a word when the character before it is `_`
\* or uppercase, or when the token's own first character is uppercase; eventId and
\* record_id are primary keys, validate and valid are not.
C5_PrimaryKeyHeuristic ==
    PrimaryKeyDone =>
        /\ ret <=> (NameIsToken(arg.field_name) \/ TokenStartsWord(arg.field_name)
                      \/ NameHasKeyPrefix(arg.field_name))
        /\ arg.field_name \in {"eventId", "record_id"} => ret
        /\ arg.field_name \in {"validate", "valid"} => ~ret

C5_Witness ==
    /\ PrimaryKeyDone
    /\ arg.field_name = "eventId"
    /\ ret = TRUE

FormatType(format_str) ==
    LET f == IF IsSome(format_str) THEN lower(Get(format_str)) ELSE ""
    IN  IF f \in {"date", "date-only"} THEN "DATE"
        ELSE IF f \in {"datetime", "date-time", "iso8601"} THEN "DATETIME"
        ELSE ""

\* the table of the claim
ClaimedTableType(type_str) ==
    LET t == lower(type_str)
    IN  CASE t \in {"string", "str", "text"} -> "STRING"
          [] t \in {"integer", "int", "long"} -> "INTEGER"
          [] t \in {"number", "float", "double", "decimal"} -> "NUMBER"
          [] t \in {"boolean", "bool"} -> "BOOLEAN"
          [] t = "object" -> "OBJECT"
          [] t \in {"array", "list"} -> "ARRAY"
          [] OTHER -> "STRING"

\* the table with the three entries the claim leaves out
FullTableType(type_str) ==
    LET t == lower(type_str)
    IN  CASE t = "date" -> "DATE"
          [] t \in {"datetime", "timestamp"} -> "DATETIME"
          [] OTHER -> ClaimedTableType(type_str)

\* C6 as stated: a date/date-only format gives DATE and a datetime/date-time/iso8601
\* format gives DATETIME whatever the type; otherwise the type string, compared
\* case-insensitively, is looked up in the table string/str/text, integer/int/long,
\* number/float/double/decimal, boolean/bool, object, array/list, and every other
\* type string gives STRING.
C6_AsStated ==
    pc = "map_type_done" =>
        ret = (IF FormatType(arg.format_str) # "" THEN FormatType(arg.format_str)
               ELSE ClaimedTableType(arg.type_str))

\* C6 amended: the table also maps date to DATE and datetime/timestamp to DATETIME;
\* every type string outside that larger table gives STRING.
C6_TypeMapping ==
    pc = "map_type_done" =>
        ret = (IF FormatType(arg.format_str) # "" THEN FormatType(arg.format_str)
               ELSE FullTableType(arg.type_str))

C6_Witness ==
    /\ pc = "map_type_done"
    /\ arg.type_str = "TIMESTAMP"
    /\ arg.format_str = Some("email")
    /\ ret = "DATETIME"

RECURSIVE FirstPresent(_)
FirstPresent(opts) ==
    IF Len(opts) = 0 THEN None
    ELSE IF IsSome(Head(opts)) THEN Head(opts) ELSE FirstPresent(Tail(opts))

RECURSIVE LastPresent(_)
LastPresent(opts) ==
    IF Len(opts) = 0 THEN None
    ELSE IF IsSome(opts[Len(opts)]) THEN opts[Len(opts)]
    ELSE LastPresent(SubSeq(opts, 1, Len(opts) - 1))

\* C7 as stated: min_value is the first present of minimum, min, exclusiveMinimum
\* and max_value the first present of maximum, max, exclusiveMaximum.
C7_AsStated ==
    pc = "constraints_done" =>
        /\ ret.min_value = FirstPresent(<<arg.minimum, arg.min, arg.exclusiveMinimum>>)
        /\ ret.max_value = FirstPresent(<<arg.maximum, arg.max, arg.exclusiveMaximum>>)

\* C7 amended: the last present alias wins: min_value is exclusiveMinimum if present,
\* else min if present, else minimum; max_value likewise with exclusiveMaximum, max,
\* maximum.
C7_LastAliasWins ==
    pc = "constraints_done" =>
        /\ ret.min_value = LastPresent(<<arg.minimum, arg.min, arg.exclusiveMinimum>>)
        /\ ret.max_value = LastPresent(<<arg.maximum, arg.max, arg.exclusiveMaximum>>)

C7_Witness ==
    /\ pc = "constraints_done"
    /\ arg.minimum = Some(1) /\ arg.min = None /\ arg.exclusiveMinimum = Some(2)
    /\ arg.maximum = Some(2) /\ arg.max = Some(1)
    /\ ret.min_value = Some(2)
    /\ ret.max_value = Some(1)

(***************************************************************************)
(* JSON values held by plans and records.  A scalar is a record with the   *)
(* Python type in k; a str is either a literal (its text in s) or a text   *)
(* rendered from numbers (the template in s, the numbers in n and m).  A   *)
(* float is n * 10^-m.                                                     *)
(***************************************************************************)
Scalar(k, n, m, s) == [k |-> k, n |-> n, m |-> m, s |-> s]
NullV == Scalar("null", 0, 0, "")
IntV(i) == Scalar("int", i, 0, "")
FloatV(n, digits) == Scalar("float", n, digits, "")
BoolV(b) == Scalar("bool", IF b THEN 1 ELSE 0, 0, "")
StrV(s) == Scalar("str", 0, 0, s)
Text(template, n, m) == Scalar("str", n, m, template)
ListV(items) == [k |-> "list", items |-> items]
MapV(entries) == [k |-> "map", e |-> entries]

\* dict.get(key, default) on a dict kept as a sequence of <<key, value>> pairs
HasKey(d, key) == \E i \in 1..Len(d) : d[i][1] = key
Lookup(d, key) == d[CHOOSE i \in 1..Len(d) : d[i][1] = key][2]
DictGet(d, key, default) == IF HasKey(d, key) THEN Lookup(d, key) ELSE default

\* d[key] = value: an existing key keeps its place, a new key goes last
DictPut(d, key, value) ==
    IF HasKey(d, key)
    THEN [i \in 1..Len(d) |-> IF d[i][1] = key THEN <<key, value>> ELSE d[i]]
    ELSE Append(d, <<key, value>>)

\* the outcome of a call: the value returned, or the exception raised
Ok(value) == [error |-> "", value |-> value]
Err(name) == [error |-> name, value |-> NullV]

DIGITS == "0123456789"
isdigit(c) == IndexIn(c, DIGITS) > 0

RECURSIVE DigitsValue(_)
DigitsValue(s) ==
    IF Len(s) = 0 THEN 0
    ELSE 10 * DigitsValue(SubSeq(s, 1, Len(s) - 1)) + (IndexIn(Char(s, Len(s)), DIGITS) - 1)

RECURSIVE strip(_)
strip(s) ==
    IF Len(s) > 0 /\ Char(s, 1) = " " THEN strip(SubSeq(s, 2, Len(s)))
    ELSE IF Len(s) > 0 /\ Char(s, Len(s)) = " " THEN strip(SubSeq(s, 1, Len(s) - 1))
    ELSE s

\* int(text): optional surrounding blanks, optional sign, then decimal digits
ParseInt(text) ==
    LET t == strip(text)
        signed == Len(t) > 0 /\ Char(t, 1) \in {"+", "-"}
        body == IF signed THEN SubSeq(t, 2, Len(t)) ELSE t
    IN  IF Len(body) > 0 /\ \A i \in 1..Len(body) : isdigit(Char(body, i))
        THEN Ok(IF signed /\ Char(t, 1) = "-" THEN 0 - DigitsValue(body) ELSE DigitsValue(body))
        ELSE Err("ValueError")

RECURSIVE Pow10(_)
Pow10(d) == IF d <= 0 THEN 1 ELSE 10 * Pow10(d - 1)

RECURSIVE IntToStr(_)
IntToStr(i) ==
    IF i < 0 THEN "-" \o IntToStr(0 - i)
    ELSE IF i < 10 THEN Char(DIGITS, i + 1)
    ELSE IntToStr(i \div 10) \o Char(DIGITS, (i % 10) + 1)

\* int(x), truncating toward zero
Trunc(n, d) == IF n >= 0 THEN n \div d ELSE 0 - ((0 - n) \div d)

int(v) ==
    CASE v.k \in {"int", "bool"} -> Ok(v.n)
      [] v.k = "float" -> Ok(Trunc(v.n, Pow10(v.m)))
      [] v.k = "str" /\ v.n = 0 /\ v.m = 0 -> ParseInt(v.s)
      [] v.k = "str" -> Err("ValueError")
      [] OTHER -> Err("TypeError")

\* float(text), in hundredths: an integer literal or digits "." digits (exponents,
\* inf and nan are outside the plans considered)
ParseFloat(text) ==
    LET t == strip(text)
        signed == Len(t) > 0 /\ Char(t, 1) \in {"+", "-"}
        body == IF signed THEN SubSeq(t, 2, Len(t)) ELSE t
        dot == IndexIn(".", body)
        whole == IF dot = 0 THEN body ELSE SubSeq(body, 1, dot - 1)
        frac == IF dot = 0 THEN "" ELSE SubSeq(body, dot + 1, Len(body))
        cents == DigitsValue(SubSeq(frac \o "00", 1, 2))
        magnitude == 100 * DigitsValue(whole) + cents
    IN  IF /\ Len(whole) + Len(frac) > 0
           /\ \A i \in 1..Len(whole) : isdigit(Char(whole, i))
           /\ \A i \in 1..Len(frac) : isdigit(Char(frac, i))
        THEN Ok(IF signed /\ Char(t, 1) = "-" THEN 0 - magnitude ELSE magnitude)
        ELSE Err("ValueError")

\* float(x), in hundredths
float(v) ==
    CASE v.k \in {"int", "bool"} -> Ok(100 * v.n)
      [] v.k = "float" -> Ok(IF v.m >= 2 THEN Trunc(v.n, Pow10(v.m - 2)) ELSE v.n * Pow10(2 - v.m))
      [] v.k = "str" /\ v.n = 0 /\ v.m = 0 -> ParseFloat(v.s)
      [] v.k = "str" -> Err("ValueError")
      [] OTHER -> Err("TypeError")

\* the truth value Python gives a JSON value
truthy(v) ==
    CASE v.k = "null" -> FALSE
      [] v.k \in {"int", "float", "bool"} -> v.n # 0
      [] v.k = "str" -> ~(v.s = "" /\ v.n = 0 /\ v.m = 0)
      [] v.k = "list" -> Len(v.items) > 0
      [] v.k = "map" -> Len(v.e) > 0
      [] OTHER -> TRUE

\* str(x) as an f-string renders it
format(v) ==
    CASE v.k = "str" -> v.s
      [] v.k = "int" -> IntToStr(v.n)
      [] v.k = "bool" -> IF v.n = 1 THEN "True" ELSE "False"
      [] v.k = "null" -> "None"
      [] OTHER -> "<" \o v.k \o ">"

(***************************************************************************)
(* random.Random(seed).  The stream of a seeded generator is a function of *)
(* the seed alone; a linear congruential generator stands for the Mersenne *)
(* Twister.  A raw output x in 0..Modulus-1 is the fraction x / Modulus    *)
(* that random() returns.  An instance holds the seed and how many outputs *)
(* of the stream it has consumed, separately for its own Random (rng) and  *)
(* for the Random of its Faker instance (faker), both seeded alike.        *)
(***************************************************************************)
Modulus == 4096

\* the n-th output of the stream seeded with seed, n >= 1; seeding scatters the
\* seeds over the cycle
RECURSIVE Output(_, _)
Output(seed, n) ==
    IF n = 0 THEN ((seed % Modulus) * 1597 + 2731) % Modulus
    ELSE (1229 * Output(seed, n - 1) + 1) % Modulus

Generator(seed) == [seed |-> seed, rng |-> 0, faker |-> 0]

\* the next raw output of the instance's own Random / of its Faker
Raw(g) == Output(g.seed, g.rng + 1)
FakerRaw(g) == Output(g.seed, g.faker + 1)
Drawn(g) == [g EXCEPT !.rng = @ + 1]
FakerDrawn(g) == [g EXCEPT !.faker = @ + 1]

\* a call on the instance: the outcome and the instance after it
Done(outcome, g) == [error |-> outcome.error, value |-> outcome.value, g |-> g]

\* randint(a, b) from a raw output: a + floor(random() * (b - a + 1))
randint(x, a, b) == a + (x * (b - a + 1)) \div Modulus

\* uniform(a, b) from a raw output: a + (b - a) * random(), on scaled integers
uniform(x, a, b) == a + ((b - a) \div Modulus) * x + (((b - a) % Modulus) * x) \div Modulus

\* choice(seq) from a raw output: seq[floor(random() * len(seq))]
choice(x, seq) == seq[1 + (x * Len(seq)) \div Modulus]

\* round(value, ndigits) of a value in hundredths, ties to even
RoundTo(n, step) ==
    LET q == n \div step
        r == n % step
    IN  IF 2 * r < step THEN q * step
        ELSE IF 2 * r > step THEN (q + 1) * step
        ELSE IF q % 2 = 0 THEN q * step ELSE (q + 1) * step

round(n, ndigits) == IF ndigits >= 2 THEN n ELSE RoundTo(n, Pow10(2 - ndigits))

\* an argument that must be an integer: bool counts, anything else raises
Integral(v) == IF v.k \in {"int", "bool"} THEN Ok(v.n) ELSE Err("TypeError")

(***************************************************************************)
(* generators.DataGenerator: the generator functions.  Each takes the      *)
(* instance g and the constraints dict (the clock too where utcnow() is    *)
(* read) and gives the outcome with the instance as the call leaves it.    *)
(* A text Faker produces is named by its provider and the raw output it    *)
(* was made from.                                                          *)
(***************************************************************************)
SecondsPerDay == 86400

generate_uuid4(g, constraints) == Done(Ok(Text("<uuid4>", Raw(g), 0)), Drawn(g))

generate_timestamp_iso8601(g, constraints, clock) ==
    LET days_back == Integral(DictGet(constraints, "days_back", IntV(30)))
        g1 == Drawn(g)
        g2 == Drawn(g1)
        g3 == Drawn(g2)
        random_offset ==
            randint(Raw(g), 0, days_back.value) * SecondsPerDay
                + randint(Raw(g1), 0, 23) * 3600 + randint(Raw(g2), 0, 59) * 60
                + randint(Raw(g3), 0, 59)
    IN  IF days_back.error # "" THEN Done(days_back, g)
        ELSE IF days_back.value < 0 THEN Done(Err("ValueError"), g)
        ELSE Done(Ok(Text("<timestamp>", clock - random_offset, 0)), Drawn(g3))

generate_date_iso8601(g, constraints, clock) ==
    LET days_back == Integral(DictGet(constraints, "days_back", IntV(365)))
        days_forward == Integral(DictGet(constraints, "days_forward", IntV(365)))
        base_date == clock \div SecondsPerDay
        offset == randint(Raw(g), 0 - days_back.value, days_forward.value)
    IN  IF days_back.error # "" THEN Done(days_back, g)
        ELSE IF days_forward.error # "" THEN Done(days_forward, g)
        ELSE IF 0 - days_back.value > days_forward.value THEN Done(Err("ValueError"), g)
        ELSE Done(Ok(Text("<date>", base_date + offset, 0)), Drawn(g))

generate_enum_choice(g, constraints) ==
    LET choices == DictGet(constraints, "choices", ListV(<<>>))
    IN  IF ~truthy(choices) THEN Done(Ok(NullV), g)
        ELSE IF choices.k = "list" THEN Done(Ok(choice(Raw(g), choices.items)), Drawn(g))
        ELSE IF choices.k = "str" /\ choices.n = 0 /\ choices.m = 0
             THEN Done(Ok(StrV(choice(Raw(g), [i \in 1..Len(choices.s) |-> Char(choices.s, i)]))),
                       Drawn(g))
        ELSE IF choices.k = "map" THEN Done(Err("KeyError"), Drawn(g))
        ELSE Done(Err("TypeError"), g)

generate_int_range(g, constraints) ==
    LET min_val == int(DictGet(constraints, "min", IntV(0)))
        max_val == int(DictGet(constraints, "max", IntV(1000)))
    IN  IF min_val.error # "" THEN Done(min_val, g)
        ELSE IF max_val.error # "" THEN Done(max_val, g)
        ELSE IF min_val.value > max_val.value THEN Done(Err("ValueError"), g)
        ELSE Done(Ok(IntV(randint(Raw(g), min_val.value, max_val.value))), Drawn(g))

generate_numeric_range(g, constraints) ==
    LET min_val == float(DictGet(constraints, "min", FloatV(0, 2)))
        max_val == float(DictGet(constraints, "max", FloatV(100000, 2)))
        precision == DictGet(constraints, "precision", IntV(2))
        value == uniform(Raw(g), min_val.value, max_val.value)
    IN  IF min_val.error # "" THEN Done(min_val, g)
        ELSE IF max_val.error # "" THEN Done(max_val, g)
        ELSE IF precision.k = "null" THEN Done(Ok(IntV(RoundTo(value, 100) \div 100)), Drawn(g))
        ELSE IF precision.k \in {"int", "bool"}
             THEN Done(Ok(FloatV(round(value, precision.n), 2)), Drawn(g))
        ELSE Done(Err("TypeError"), Drawn(g))

generate_email(g, constraints) ==
    LET domain == DictGet(constraints, "domain", NullV)
    IN  IF truthy(domain)
        THEN Done(Ok(Text("<user_name>@" \o format(domain), FakerRaw(g), 0)), FakerDrawn(g))
        ELSE Done(Ok(Text("<email>", FakerRaw(g), 0)), FakerDrawn(g))

\* "".join([str(randint(0, 9)) for _ in range(count)]) and the instance after it
RECURSIVE RandomDigits(_, _)
RandomDigits(g, count) ==
    IF count = 0 THEN [text |-> "", g |-> g]
    ELSE LET rest == RandomDigits(Drawn(g), count - 1)
         IN  [text |-> Char(DIGITS, randint(Raw(g), 0, 9) + 1) \o rest.text, g |-> rest.g]

generate_phone_e164(g, constraints) ==
    LET country_code == DictGet(constraints, "country_code", StrV("1"))
        number == RandomDigits(g, 10)
    IN  Done(Ok(StrV("+" \o format(country_code) \o number.text)), number.g)

\* Faker.text(max_nb_chars) refuses fewer than 5 characters
MinTextChars == 5

generate_string(g, constraints) ==
    LET min_length == Integral(DictGet(constraints, "min_length", IntV(5)))
        max_length == Integral(DictGet(constraints, "max_length", IntV(20)))
        length == randint(Raw(g), min_length.value, max_length.value)
    IN  IF min_length.error # "" THEN Done(min_length, g)
        ELSE IF max_length.error # "" THEN Done(max_length, g)
        ELSE IF min_length.value > max_length.value THEN Done(Err("ValueError"), g)
        ELSE IF length * 2 < MinTextChars THEN Done(Err("ValueError"), Drawn(g))
        ELSE Done(Ok(Text("<text>", FakerRaw(g), length)), FakerDrawn(Drawn(g)))

\* the printable ASCII characters in code order: ord(c) = 31 + position (a tab
\* holds the place of the grave accent, code 96, which a string cannot contain)
ASCII == " !\"#$%&'()*+,-./0123456789:;<=>?@ABCDEFGHIJKLMNOPQRSTUVWXYZ[\\]^_\tabcdefghijklmnopqrstuvwxyz{|}~"
ord(c) == 31 + IndexIn(c, ASCII)
chr(code) == Char(ASCII, code - 31)

\* str.find(c, start) with 1-based positions: 0 when c does not occur from start on
Find(s, c, start) ==
    IF \E i \in start..Len(s) : Char(s, i) = c
    THEN CHOOSE i \in start..Len(s) : Char(s, i) = c /\ \A j \in start..(i - 1) : Char(s, j) # c
    ELSE 0

RECURSIVE CharRange(_, _)
CharRange(first, last) == IF first > last THEN "" ELSE chr(first) \o CharRange(first + 1, last)

RECURSIVE ExpandFrom(_, _)
ExpandFrom(char_class, i) ==
    IF i > Len(char_class) THEN ""
    ELSE IF i + 2 <= Len(char_class) /\ Char(char_class, i + 1) = "-"
         THEN CharRange(ord(Char(char_class, i)), ord(Char(char_class, i + 2)))
                \o ExpandFrom(char_class, i + 3)
    ELSE Char(char_class, i) \o ExpandFrom(char_class, i + 1)

\* a class taken as the characters written between the brackets
ClassAsWritten(char_class) == IF char_class # "" THEN char_class ELSE "X"

expand_char_class(char_class) ==
    LET chars == ExpandFrom(char_class, 1) IN IF chars # "" THEN chars ELSE "X"

\* `repeat` characters chosen from chars, and the instance after the draws
RECURSIVE Choices(_, _, _)
Choices(g, chars, repeat) ==
    IF repeat <= 0 THEN [text |-> "", g |-> g]
    ELSE LET rest == Choices(Drawn(g), chars, repeat - 1)
         IN  [text |-> Char(chars, 1 + (Raw(g) * Len(chars)) \div Modulus) \o rest.text,
              g |-> rest.g]

WORD_CHARS == "abcdefghijklmnopqrstuvwxyzABCDEFGHIJKLMNOPQRSTUVWXYZ0123456789_"
METACHARACTERS == ".+*?^$|(){}"

\* the while loop of generate_string_pattern from position i on
RECURSIVE ExpandPattern(_, _, _)
ExpandPattern(g, pattern, i) ==
    IF i > Len(pattern) THEN [text |-> "", g |-> g]
    ELSE IF Char(pattern, i) = "["
    THEN LET end == Find(pattern, "]", i)
             rep_end == IF end # 0 /\ end + 1 <= Len(pattern) /\ Char(pattern, end + 1) = "{"
                        THEN Find(pattern, "}", end + 1) ELSE 0
             count == IF rep_end # 0 THEN ParseInt(SubSeq(pattern, end + 2, rep_end - 1))
                      ELSE Err("ValueError")
             repeat == IF count.error = "" THEN count.value ELSE 1
             last == IF count.error = "" THEN rep_end ELSE end
             picked == Choices(g, expand_char_class(SubSeq(pattern, i + 1, end - 1)), repeat)
             rest == ExpandPattern(picked.g, pattern, last + 1)
             skipped == ExpandPattern(g, pattern, i + 1)
         IN  IF end = 0 THEN [text |-> "[" \o skipped.text, g |-> skipped.g]
             ELSE [text |-> picked.text \o rest.text, g |-> rest.g]
    ELSE IF Char(pattern, i) = "\\"
    THEN IF i + 1 <= Len(pattern)
         THEN LET escaped == Char(pattern, i + 1)
                  drawn == ExpandPattern(Drawn(g), pattern, i + 2)
                  plain == ExpandPattern(g, pattern, i + 2)
              IN  IF escaped = "d"
                  THEN [text |-> Char(DIGITS, randint(Raw(g), 0, 9) + 1) \o drawn.text,
                        g |-> drawn.g]
                  ELSE IF escaped = "w"
                  THEN [text |-> Choices(g, WORD_CHARS, 1).text \o drawn.text, g |-> drawn.g]
                  ELSE [text |-> escaped \o plain.text, g |-> plain.g]
         ELSE ExpandPattern(g, pattern, i + 1)
    ELSE IF IndexIn(Char(pattern, i), METACHARACTERS) > 0
    THEN ExpandPattern(g, pattern, i + 1)
    ELSE LET rest == ExpandPattern(g, pattern, i + 1)
         IN  [text |-> Char(pattern, i) \o rest.text, g |-> rest.g]

generate_string_pattern(g, constraints) ==
    LET pattern == DictGet(constraints, "pattern", StrV("[A-Z]{3}[0-9]{4}"))
        expanded == ExpandPattern(g, pattern.s, 1)
    IN  IF pattern.k = "str" /\ pattern.n = 0 /\ pattern.m = 0
        THEN Done(Ok(StrV(expanded.text)), expanded.g)
        ELSE Done(Err("TypeError"), g)

generate_country(g, constraints) ==
    LET code_type == DictGet(constraints, "type", StrV("name"))
    IN  IF code_type = StrV("code")
        THEN Done(Ok(Text("<country_code>", FakerRaw(g), 0)), FakerDrawn(g))
        ELSE Done(Ok(Text("<country>", FakerRaw(g), 0)), FakerDrawn(g))

generate_city(g, constraints) == Done(Ok(Text("<city>", FakerRaw(g), 0)), FakerDrawn(g))

\* latitude and longitude in millionths of a degree (round(..., 6))
generate_lat_long(g, constraints) ==
    LET lat == uniform(Raw(g), -90000000, 90000000)
        lon == uniform(Raw(Drawn(g)), -180000000, 180000000)
        output_format == DictGet(constraints, "format", StrV("object"))
        after == Drawn(Drawn(g))
    IN  IF output_format = StrV("string") THEN Done(Ok(Text("<lat>,<lon>", lat, lon)), after)
        ELSE IF output_format = StrV("lat") THEN Done(Ok(FloatV(lat, 6)), after)
        ELSE IF output_format = StrV("lon") THEN Done(Ok(FloatV(lon, 6)), after)
        ELSE Done(Ok(MapV(<< <<"latitude", FloatV(lat, 6)>>, <<"longitude", FloatV(lon, 6)>> >>)),
                  after)

generate_fixed_value(g, constraints) == Done(Ok(DictGet(constraints, "value", NullV)), g)

\* random() < probability, the probability in hundredths
generate_boolean(g, constraints) ==
    LET probability == DictGet(constraints, "probability_true", FloatV(50, 2))
    IN  IF probability.k \in {"int", "float", "bool"}
        THEN Done(Ok(BoolV(100 * Raw(g) < float(probability).value * Modulus)), Drawn(g))
        ELSE Done(Err("TypeError"), Drawn(g))

generate_first_name(g, constraints) ==
    LET gender == DictGet(constraints, "gender", NullV)
    IN  IF gender = StrV("male")
        THEN Done(Ok(Text("<first_name_male>", FakerRaw(g), 0)), FakerDrawn(g))
        ELSE IF gender = StrV("female")
        THEN Done(Ok(Text("<first_name_female>", FakerRaw(g), 0)), FakerDrawn(g))
        ELSE Done(Ok(Text("<first_name>", FakerRaw(g), 0)), FakerDrawn(g))

generate_last_name(g, constraints) == Done(Ok(Text("<last_name>", FakerRaw(g), 0)), FakerDrawn(g))

generate_full_name(g, constraints) == Done(Ok(Text("<name>", FakerRaw(g), 0)), FakerDrawn(g))

generate_address(g, constraints) ==
    Done(Ok(Text("<street_address>", FakerRaw(g), 0)), FakerDrawn(g))

generate_company(g, constraints) == Done(Ok(Text("<company>", FakerRaw(g), 0)), FakerDrawn(g))

generate_url(g, constraints) ==
    LET domain == DictGet(constraints, "domain", NullV)
    IN  IF truthy(domain)
        THEN Done(Ok(Text("https://" \o format(domain) \o "/<uri_path>", FakerRaw(g), 0)),
                  FakerDrawn(g))
        ELSE Done(Ok(Text("<url>", FakerRaw(g), 0)), FakerDrawn(g))

generate_currency(g, constraints) ==
    LET min_val == float(DictGet(constraints, "min", FloatV(1, 2)))
        max_val == float(DictGet(constraints, "max", FloatV(999999, 2)))
    IN  IF min_val.error # "" THEN Done(min_val, g)
        ELSE IF max_val.error # "" THEN Done(max_val, g)
        ELSE Done(Ok(FloatV(uniform(Raw(g), min_val.value, max_val.value), 2)), Drawn(g))

generate_value(g, generator_type, constraints, clock) ==
    CASE generator_type = "uuid4" -> generate_uuid4(g, constraints)
      [] generator_type = "timestamp_iso8601" -> generate_timestamp_iso8601(g, constraints, clock)
      [] generator_type = "date_iso8601" -> generate_date_iso8601(g, constraints, clock)
      [] generator_type = "enum_choice" -> generate_enum_choice(g, constraints)
      [] generator_type = "int_range" -> generate_int_range(g, constraints)
      [] generator_type = "numeric_range" -> generate_numeric_range(g, constraints)
      [] generator_type = "email" -> generate_email(g, constraints)
      [] generator_type = "phone_e164" -> generate_phone_e164(g, constraints)
      [] generator_type = "string" -> generate_string(g, constraints)
      [] generator_type = "string_pattern" -> generate_string_pattern(g, constraints)
      [] generator_type = "country" -> generate_country(g, constraints)
      [] generator_type = "city" -> generate_city(g, constraints)
      [] generator_type = "lat_long" -> generate_lat_long(g, constraints)
      [] generator_type = "fixed_value" -> generate_fixed_value(g, constraints)
      [] generator_type = "boolean" -> generate_boolean(g, constraints)
      [] generator_type = "first_name" -> generate_first_name(g, constraints)
      [] generator_type = "last_name" -> generate_last_name(g, constraints)
      [] generator_type = "full_name" -> generate_full_name(g, constraints)
      [] generator_type = "address" -> generate_address(g, constraints)
      [] generator_type = "company" -> generate_company(g, constraints)
      [] generator_type = "url" -> generate_url(g, constraints)
      [] generator_type = "currency" -> generate_currency(g, constraints)
      [] OTHER -> generate_string(g, constraints)

(***************************************************************************)
(* generate_payload and _set_nested_value.  A dict taken from the plan (a  *)
(* suggested_value, or the `value` of a fixed_value field) goes into the   *)
(* payload as the plan's own object, so a later dotted path that walks     *)
(* into it writes into the plan: Shared(i) stands for the object of field  *)
(* i, `objects` holds what each of them contains.                          *)
(***************************************************************************)
Shared(i) == [k |-> "shared", field |-> i]

FieldGenerationPlan(field_name, generator_type, suggested_value, constraints) ==
    [field_name |-> field_name, generator_type |-> generator_type,
     suggested_value |-> suggested_value, constraints |-> constraints]

GenerationPlan(fields, seed) == [fields |-> fields, seed |-> seed]

\* a test of the suggested value's truth value instead of `is not None`
UsesSuggestedIfTruthy(field_plan) == truthy(field_plan.suggested_value)

\* `field_plan.suggested_value is not None`
UsesSuggested(field_plan) == field_plan.suggested_value # NullV

PlanObject(field_plan) ==
    IF UsesSuggested(field_plan) THEN field_plan.suggested_value
    ELSE IF field_plan.generator_type = "fixed_value"
    THEN DictGet(field_plan.constraints, "value", NullV)
    ELSE NullV

\* _set_nested_value on the dict `node`: the dict after the assignment, or TypeError
\* when the walk meets a value that is not a dict
RECURSIVE SetNested(_, _, _, _)
SetNested(node, parts, value, objects) ==
    IF node.k = "shared"
    THEN LET inner == SetNested(objects[node.field], parts, value, objects)
         IN  IF inner.error # "" THEN inner
             ELSE [error |-> "", node |-> node,
                   objects |-> [inner.objects EXCEPT ![node.field] = inner.node]]
    ELSE IF node.k # "map" THEN [error |-> "TypeError", node |-> node, objects |-> objects]
    ELSE IF Len(parts) = 1
    THEN [error |-> "", node |-> MapV(DictPut(node.e, parts[1], value)), objects |-> objects]
    ELSE LET current == DictGet(node.e, parts[1], MapV(<<>>))
             inner == SetNested(current, Tail(parts), value, objects)
         IN  IF inner.error # "" THEN [error |-> inner.error, node |-> node, objects |-> objects]
             ELSE [error |-> "", node |-> MapV(DictPut(node.e, parts[1], inner.node)),
                   objects |-> inner.objects]

\* a write that takes the whole dotted name as one top-level key
SetTopLevel(obj, path, value, objects) ==
    [error |-> "", node |-> MapV(DictPut(obj.e, path, value)), objects |-> objects]

\* a walk that puts a fresh dict in place of whatever is not a dict
RECURSIVE SetNestedOverwriting(_, _, _)
SetNestedOverwriting(node, parts, value) ==
    LET entries == IF node.k = "map" THEN node.e ELSE <<>>
    IN  IF Len(parts) = 1 THEN MapV(DictPut(entries, parts[1], value))
        ELSE MapV(DictPut(entries, parts[1],
                          SetNestedOverwriting(DictGet(entries, parts[1], MapV(<<>>)),
                                               Tail(parts), value)))

SetOverwriting(obj, path, value, objects) ==
    [error |-> "", node |-> SetNestedOverwriting(obj, split(path, "."), value),
     objects |-> objects]

set_nested_value(obj, path, value, objects) == SetNested(obj, split(path, "."), value, objects)

\* the JSON value a node stands for, the plan's objects written out
RECURSIVE Resolve(_, _)
Resolve(node, objects) ==
    IF node.k = "shared" THEN Resolve(objects[node.field], objects)
    ELSE IF node.k = "map"
    THEN MapV([i \in 1..Len(node.e) |-> <<node.e[i][1], Resolve(node.e[i][2], objects)>>])
    ELSE node

\* the value of one field: the suggested value if not None, else a generated one
FieldValue(g, field_plan, clock) ==
    IF UsesSuggested(field_plan)
    THEN Done(Ok(field_plan.suggested_value), g)
    ELSE generate_value(g, field_plan.generator_type, field_plan.constraints, clock)

\* what goes into the payload: a dict of the plan as the plan's own object
Handed(field_plan, i, value) ==
    IF value.k = "map" /\ value = PlanObject(field_plan) THEN Shared(i) ELSE value

\* the loop over plan.fields from field i on: the field's value is made, then
\* stored under its path, then the loop goes on
RECURSIVE PayloadFrom(_, _, _, _, _, _)

Stored(g, fields, i, payload, objects, clock, set) ==
    IF set.error # ""
    THEN [error |-> set.error, payload |-> payload, objects |-> objects, g |-> g]
    ELSE PayloadFrom(g, fields, i + 1, set.node, set.objects, clock)

Made(fields, i, payload, objects, clock, made) ==
    IF made.error # ""
    THEN [error |-> made.error, payload |-> payload, objects |-> objects, g |-> made.g]
    ELSE Stored(made.g, fields, i, payload, objects, clock,
                set_nested_value(payload, fields[i].field_name,
                                 Handed(fields[i], i, made.value), objects))

PayloadFrom(g, fields, i, payload, objects, clock) ==
    IF i > Len(fields)
    THEN [error |-> "", payload |-> payload, objects |-> objects, g |-> g]
    ELSE Made(fields, i, payload, objects, clock, FieldValue(g, fields[i], clock))

\* the plan with its objects as the call left them
Written(field_plan, object) ==
    IF object.k # "map" THEN field_plan
    ELSE IF UsesSuggested(field_plan) THEN [field_plan EXCEPT !.suggested_value = object]
    ELSE [field_plan EXCEPT !.constraints = DictPut(@, "value", object)]

PlanObjects(plan) == [i \in 1..Len(plan.fields) |-> PlanObject(plan.fields[i])]

\* the outcome of the loop `run`: the record returned (or the error raised), the
\* instance and the plan after the call
Payload(plan, run) ==
    [error |-> run.error,
     value |-> IF run.error = "" THEN Resolve(run.payload, run.objects) ELSE NullV,
     g |-> run.g,
     plan |-> [plan EXCEPT !.fields =
                 [i \in 1..Len(plan.fields) |->
                    Written(plan.fields[i], Resolve(run.objects[i], run.objects))]]]

\* generate_payload leaving the instance as it found it
Rewound(g, call) == [call EXCEPT !.g = g]

GeneratePayloadRewinding(g, plan, clock) ==
    Rewound(g, Payload(plan, PayloadFrom(g, plan.fields, 1, MapV(<<>>), PlanObjects(plan), clock)))

\* generate_payload(plan) on instance g
generate_payload(g, plan, clock) ==
    Payload(plan, PayloadFrom(g, plan.fields, 1, MapV(<<>>), PlanObjects(plan), clock))

(***************************************************************************)
(* The generator as a state machine: instances are constructed, asked for  *)
(* payloads of the plan in `arg`, and re-seeded, while the clock advances. *)
(* Each instance keeps the log of its generate_payload calls: the stream   *)
(* positions before and after, the outcome, and how many reset_seed calls  *)
(* preceded it.                                                            *)
(***************************************************************************)
MaxSeed == 1
MaxGenerators == 2
MaxCalls == 2
MaxResets == 1
MaxTicks == 1

Seeds == 0..MaxSeed
SeedArguments == { None } \cup { Some(s) : s \in Seeds }

Field(field_name, generator_type, constraints) ==
    FieldGenerationPlan(field_name, generator_type, NullV, constraints)

Suggested(field_name, generator_type, suggested_value) ==
    FieldGenerationPlan(field_name, generator_type, suggested_value, <<>>)

PlanFields ==
    { <<>>,
      << Field("id", "uuid4", <<>>) >>,
      << Field("created", "timestamp_iso8601", << <<"days_back", IntV(1)>> >>) >>,
      << Field("day", "date_iso8601", <<>>) >>,
      << Field("qty", "int_range", << <<"min", IntV(1)>>, <<"max", IntV(6)>> >>) >>,
      << Suggested("status", "string", StrV("NEW")) >>,
      << Field("status", "fixed_value", << <<"value", StrV("A")>> >>),
         Field("qty", "int_range", << <<"min", IntV(5)>>, <<"max", IntV(5)>> >>) >>,
      << Field("address.city", "city", <<>>),
         Field("address.zip", "string_pattern", << <<"pattern", StrV("[0-9]{2}")>> >>) >>,
      << Suggested("address", "string", MapV(<< <<"street", StrV("Main")>> >>)),
         Field("address.city", "city", <<>>) >>,
      << Suggested("name", "full_name", StrV("Bob")), Field("name.first", "first_name", <<>>) >>,
      << Field("flag", "boolean", <<>>),
         Field("tier", "enum_choice",
               << <<"choices", ListV(<<StrV("a"), StrV("b"), StrV("c")>>)>> >>) >>,
      << Field("email", "email", <<>>), Field("phone", "phone_e164", <<>>),
         Field("price", "currency", <<>>),
         Field("score", "numeric_range", << <<"precision", IntV(0)>> >>),
         Field("loc", "lat_long", <<>>), Field("loc.alt", "int_range", <<>>),
         Field("country", "country", << <<"type", StrV("code")>> >>),
         Field("site", "url", << <<"domain", StrV("x.io")>> >>),
         Field("who", "full_name", <<>>), Field("org", "company", <<>>),
         Field("last", "last_name", <<>>), Field("street", "address", <<>>),
         Field("bio", "string", <<>>) >>,
      << Field("note", "string", << <<"min_length", IntV(1)>>, <<"max_length", IntV(2)>> >>) >>,
      << Suggested("count", "int_range", IntV(0)), Suggested("active", "uuid4", BoolV(FALSE)),
         Suggested("note", "city", StrV("")) >>,
      << Suggested("count", "int_range", IntV(0)),
         Field("qty", "int_range", << <<"min", IntV(1)>>, <<"max", IntV(6)>> >>) >> }

Plans == { GenerationPlan(fields, None) : fields \in PlanFields }

InitGenerators ==
    /\ pc = "generator"
    /\ arg \in Plans
    /\ ret = None
    /\ now = 0
    /\ gens = <<>>

\* DataGenerator(seed): without a seed one is drawn from the module-level random
Construct(seed) ==
    /\ pc = "generator"
    /\ Len(gens) < MaxGenerators
    /\ \E drawn \in Seeds :
         LET chosen == IF IsSome(seed) THEN Get(seed) ELSE drawn
         IN  gens' = Append(gens, [g |-> Generator(chosen), first_seed |-> chosen,
                                   resets |-> 0, calls |-> <<>>])
    /\ UNCHANGED <<pc, arg, ret, now>>

Position(g) == <<g.rng, g.faker>>

\* the call goes into the log of instance i; what it wrote into the plan stays
Logged(i, call) ==
    /\ gens' = [gens EXCEPT ![i].g = call.g,
                            ![i].calls = Append(@, [start |-> Position(gens[i].g),
                                                    end |-> Position(call.g),
                                                    error |-> call.error,
                                                    value |-> call.value,
                                                    resets |-> gens[i].resets])]
    /\ arg' = call.plan

GeneratePayload(i) ==
    /\ pc = "generator"
    /\ i \in 1..Len(gens)
    /\ Len(gens[i].calls) < MaxCalls
    /\ Logged(i, generate_payload(gens[i].g, arg, now))
    /\ UNCHANGED <<pc, ret, now>>

RECURSIVE SumResets(_)
SumResets(instances) ==
    IF Len(instances) = 0 THEN 0 ELSE Head(instances).resets + SumResets(Tail(instances))

\* reset_seed calls made so far, on any instance
Resets == SumResets(gens)

\* reset_seed(seed)
ResetSeed(i, seed) ==
    /\ pc = "generator"
    /\ i \in 1..Len(gens)
    /\ Resets < MaxResets
    /\ \E drawn \in Seeds :
         LET chosen == IF IsSome(seed) THEN Get(seed) ELSE drawn
         IN  gens' = [gens EXCEPT ![i].g = Generator(chosen), ![i].resets = @ + 1]
    /\ UNCHANGED <<pc, arg, ret, now>>

\* time passes: a second or a day, MaxTicks times at most
Ticks == (now \div SecondsPerDay) + (now % SecondsPerDay)

Tick(seconds) ==
    /\ pc = "generator"
    /\ Ticks < MaxTicks
    /\ now' = now + seconds
    /\ UNCHANGED <<pc, arg, ret, gens>>

NextGenerators ==
    \/ \E seed \in SeedArguments : Construct(seed)
    \/ \E i \in 1..MaxGenerators : GeneratePayload(i)
    \/ \E i \in 1..MaxGenerators, seed \in SeedArguments : ResetSeed(i, seed)
    \/ \E seconds \in {1, SecondsPerDay} : Tick(seconds)

SpecGenerators == InitGenerators /\ [][NextGenerators]_vars

\* one instance, constructed with a seed, and the calls made on it
InitOneGenerator ==
    /\ pc = "generator"
    /\ arg \in Plans
    /\ ret = None
    /\ now = 0
    /\ \E seed \in Seeds :
         gens = << [g |-> Generator(seed), first_seed |-> seed, resets |-> 0, calls |-> <<>>] >>

NextOneGenerator ==
    \/ GeneratePayload(1)
    \/ \E seed \in SeedArguments : ResetSeed(1, seed)
    \/ \E seconds \in {1, SecondsPerDay} : Tick(seconds)

SpecOneGenerator == InitOneGenerator /\ [][NextOneGenerator]_vars

(***************************************************************************)
(* Properties of the generator                                             *)
(***************************************************************************)
Instances == 1..Len(gens)
Calls(i) == gens[i].calls

\* calls k and k+1 of instance i were made with no reset_seed between them
Consecutive(i, k) ==
    /\ k \in 1..(Len(Calls(i)) - 1)
    /\ Calls(i)[k].resets = Calls(i)[k + 1].resets

SameOutcome(a, b) == a.error = b.error /\ a.value = b.value

\* a field whose value comes from the plan alone
FixedField(field_plan) ==
    \/ field_plan.suggested_value # NullV
    \/ field_plan.generator_type = "fixed_value"
    \/ /\ field_plan.generator_type = "enum_choice"
       /\ ~truthy(DictGet(field_plan.constraints, "choices", ListV(<<>>)))

FixedPlan(plan) == \A i \in 1..Len(plan.fields) : FixedField(plan.fields[i])

ReadsClock(plan) ==
    \E i \in 1..Len(plan.fields) :
        /\ plan.fields[i].suggested_value = NullV
        /\ plan.fields[i].generator_type \in {"timestamp_iso8601", "date_iso8601"}

\* C9: two instances constructed with the same seed and given the same plan in the
\* same sequence of generate_payload calls (no reset_seed before them) return the
\* same record at every call, whenever the calls are made.
C9_SeedDeterminism ==
    \A i \in Instances, j \in Instances :
        gens[i].first_seed = gens[j].first_seed =>
            \A k \in 1..Len(Calls(i)) :
                (k <= Len(Calls(j)) /\ Calls(i)[k].resets = 0 /\ Calls(j)[k].resets = 0)
                    => SameOutcome(Calls(i)[k], Calls(j)[k])

\* what does hold: the same, for plans with no timestamp_iso8601 / date_iso8601 field
SeedDeterminismClockFree ==
    ReadsClock(arg) \/ C9_SeedDeterminism

Override(field_plan, overrides) ==
    FieldGenerationPlan(field_plan.field_name, "fixed_value",
                        Lookup(overrides, field_plan.field_name),
                        << <<"value", Lookup(overrides, field_plan.field_name)>> >>)

\* an override that only sets suggested_value and keeps the entry's generator
UpdateSuggestedOnly(plan, overrides) ==
    GenerationPlan([i \in 1..Len(plan.fields) |->
                       IF HasKey(overrides, plan.fields[i].field_name)
                       THEN [plan.fields[i] EXCEPT
                               !.suggested_value = Lookup(overrides, plan.fields[i].field_name)]
                       ELSE plan.fields[i]],
                   plan.seed)

update_plan_with_overrides(plan, overrides) ==
    GenerationPlan([i \in 1..Len(plan.fields) |->
                       IF HasKey(overrides, plan.fields[i].field_name)
                       THEN Override(plan.fields[i], overrides)
                       ELSE plan.fields[i]],
                   plan.seed)

OverridePlans == { GenerationPlan(fields, seed) : fields \in PlanFields, seed \in SeedArguments }

OverrideMaps ==
    { <<>>,
      << <<"status", StrV("X")>> >>,
      << <<"qty", IntV(0)>> >>,
      << <<"address.city", StrV("Paris")>> >>,
      << <<"address", StrV("X")>> >>,
      << <<"name", NullV>> >>,
      << <<"status", MapV(<< <<"code", IntV(1)>> >>)>>, <<"qty", IntV(7)>> >>,
      << <<"missing", BoolV(TRUE)>>, <<"email", StrV("")>> >> }

InitOverrides ==
    /\ pc = "overrides"
    /\ \E plan \in OverridePlans, overrides \in OverrideMaps :
         arg = [plan |-> plan, overrides |-> overrides]
    /\ ret = None
    /\ now = 0
    /\ gens = <<>>

UpdatePlanWithOverrides ==
    /\ pc = "overrides"
    /\ ret = None
    /\ ret' = Some(update_plan_with_overrides(arg.plan, arg.overrides))
    /\ UNCHANGED <<pc, arg, now, gens>>

NextOverrides == UpdatePlanWithOverrides

SpecOverrides == InitOverrides /\ [][NextOverrides]_vars

Overridden(field_plan) == HasKey(arg.overrides, field_plan.field_name)

\* C11: update_plan_with_overrides returns a plan with the same field names in the
\* same order; every entry whose name is a key of the overrides is replaced by a
\* fixed_value entry whose suggested_value and constraints.value are the override
\* literal, and every other entry is the entry of the input plan, unchanged.
C11_OverrideApplication ==
    (pc = "overrides" /\ IsSome(ret)) =>
        LET fields == arg.plan.fields
            updated == Get(ret).fields
        IN  /\ Len(updated) = Len(fields)
            /\ \A i \in 1..Len(fields) :
                 /\ updated[i].field_name = fields[i].field_name
                 /\ Overridden(fields[i]) =>
                      /\ updated[i].generator_type = "fixed_value"
                      /\ updated[i].suggested_value = Lookup(arg.overrides, fields[i].field_name)
                      /\ HasKey(updated[i].constraints, "value")
                      /\ Lookup(updated[i].constraints, "value")
                            = Lookup(arg.overrides, fields[i].field_name)
                 /\ ~Overridden(fields[i]) => updated[i] = fields[i]

C11_Witness ==
    /\ pc = "overrides" /\ IsSome(ret)
    /\ \E i, j \in 1..Len(arg.plan.fields) :
         /\ Overridden(arg.plan.fields[i])
         /\ arg.plan.fields[i].generator_type # "fixed_value"
         /\ Get(ret).fields[i].suggested_value = IntV(0)
         /\ ~Overridden(arg.plan.fields[j])
         /\ Get(ret).fields[j] = arg.plan.fields[j]

(***************************************************************************)
(* The writes of one generate_payload call, one field after the other: the *)
(* record starts empty, each step stores a value under a field name, and   *)
(* the call ends at the first write that raises.                           *)
(***************************************************************************)
MaxWrites == 3

FieldPaths == {"a", "b", "a.b", "a.c", "a.b.c"}

FieldValues == { IntV(1), StrV("x"), MapV(<< <<"latitude", FloatV(0, 6)>> >>) }

InitWrites ==
    /\ pc = "writes"
    /\ arg = [payload |-> MapV(<<>>), written |-> 0]
    /\ ret = None
    /\ now = 0
    /\ gens = <<>>

\* what one write did: the record before it, the name, the value, the exception
WriteDone(path, value, set) ==
    /\ arg' = [payload |-> set.node, written |-> arg.written + 1]
    /\ ret' = Some([before |-> arg.payload, path |-> path, value |-> value,
                    error |-> set.error])

SetNestedValue(path, value) ==
    /\ pc = "writes"
    /\ arg.written < MaxWrites
    /\ IsSome(ret) => Get(ret).error = ""
    /\ WriteDone(path, value, set_nested_value(arg.payload, path, value, <<>>))
    /\ UNCHANGED <<pc, now, gens>>

NextWrites == \E path \in FieldPaths, value \in FieldValues : SetNestedValue(path, value)

SpecWrites == InitWrites /\ [][NextWrites]_vars

Missing == [k |-> "missing"]

\* node[parts[1]][parts[2]]..., Missing when a segment is not there
RECURSIVE At(_, _)
At(node, parts) ==
    IF Len(parts) = 0 THEN node
    ELSE IF node.k # "map" THEN Missing
    ELSE IF ~HasKey(node.e, parts[1]) THEN Missing
    ELSE At(Lookup(node.e, parts[1]), Tail(parts))

Prefix(parts, k) == SubSeq(parts, 1, k)

\* some intermediate segment of the path holds a value that is not a mapping
Collides(record, parts) ==
    \E k \in 1..(Len(parts) - 1) :
        At(record, Prefix(parts, k)) # Missing /\ At(record, Prefix(parts, k)).k # "map"

\* the keys beside the path, at every level of it, keep their values
SiblingsKept(before, after, parts) ==
    \A k \in 0..(Len(parts) - 1) :
        LET old == At(before, Prefix(parts, k))
        IN  (old # Missing /\ old.k = "map") =>
                \A i \in 1..Len(old.e) :
                    old.e[i][1] # parts[k + 1] =>
                        At(after, Append(Prefix(parts, k), old.e[i][1])) = old.e[i][2]

LastWrite == Get(ret)
Dotted(path) == Len(split(path, ".")) > 1

\* C12: a field whose name is a dotted path is written at that path: every
\* intermediate segment is a mapping afterwards (created when it was not there, kept
\* with its other keys when it was), the last segment holds the value, and no
\* top-level key with the dotted name appears; the write raises only when an
\* intermediate segment already holds a value that is not a mapping.
C12_NestedPath ==
    (pc = "writes" /\ IsSome(ret) /\ Dotted(LastWrite.path)) =>
        LET parts == split(LastWrite.path, ".")
        IN  /\ LastWrite.error # "" <=> Collides(LastWrite.before, parts)
            /\ LastWrite.error = "" =>
                 /\ \A k \in 1..(Len(parts) - 1) : At(arg.payload, Prefix(parts, k)).k = "map"
                 /\ At(arg.payload, parts) = LastWrite.value
                 /\ ~HasKey(arg.payload.e, LastWrite.path)
                 /\ SiblingsKept(LastWrite.before, arg.payload, parts)

\* the path a.b.c written into a record that has a.c but not a.b
C12_Witness ==
    /\ pc = "writes" /\ IsSome(ret)
    /\ LastWrite.path = "a.b.c" /\ LastWrite.error = ""
    /\ At(LastWrite.before, <<"a", "c">>) = IntV(1)
    /\ At(LastWrite.before, <<"a", "b">>) = Missing
    /\ At(arg.payload, <<"a", "b", "c">>) = StrV("x")
    /\ At(arg.payload, <<"a", "c">>) = IntV(1)

(***************************************************************************)
(* One generate_value call on an instance in any state of its random       *)
(* source: seeding with every value of the stream puts the source at every *)
(* point of its cycle, so the first call stands for every call.            *)
(***************************************************************************)
MaxInstant == 90061

Case(generator_type, constraints) ==
    [generator_type |-> generator_type, constraints |-> constraints]

\* constraints of the expected types whose values decide a range
RangeCases ==
    { Case("int_range", <<>>),
      Case("int_range", << <<"min", IntV(5)>>, <<"max", IntV(5)>> >>),
      Case("int_range", << <<"min", IntV(0 - 3)>>, <<"max", IntV(2)>> >>),
      Case("int_range", << <<"min", FloatV(15, 1)>>, <<"max", IntV(3)>> >>),
      Case("timestamp_iso8601", <<>>),
      Case("timestamp_iso8601", << <<"days_back", IntV(1)>> >>),
      Case("timestamp_iso8601", << <<"days_back", IntV(0)>> >>) }

\* constraints of the expected types in an unusual order or of small magnitude,
\* constraints of other types, and every generator kind without constraints
PolicyCases ==
    { Case("int_range", << <<"min", IntV(5)>>, <<"max", IntV(1)>> >>),
      Case("int_range", << <<"min", StrV("2")>>, <<"max", StrV("4")>> >>),
      Case("int_range", << <<"min", StrV("abc")>> >>),
      Case("int_range", << <<"max", NullV>> >>),
      Case("numeric_range", << <<"min", IntV(10)>>, <<"max", IntV(1)>> >>),
      Case("numeric_range", << <<"min", StrV("low")>> >>),
      Case("numeric_range", << <<"precision", IntV(0)>> >>),
      Case("currency", << <<"min", IntV(10)>>, <<"max", IntV(1)>> >>),
      Case("string", << <<"min_length", IntV(9)>>, <<"max_length", IntV(3)>> >>),
      Case("string", << <<"min_length", IntV(1)>>, <<"max_length", IntV(2)>> >>),
      Case("string", << <<"min_length", IntV(3)>>, <<"max_length", IntV(3)>> >>),
      Case("string", << <<"min_length", StrV("5")>> >>),
      Case("timestamp_iso8601", << <<"days_back", IntV(0 - 1)>> >>),
      Case("date_iso8601", << <<"days_back", IntV(0 - 9)>>, <<"days_forward", IntV(3)>> >>),
      Case("date_iso8601", << <<"days_back", IntV(1)>>, <<"days_forward", IntV(1)>> >>),
      Case("enum_choice", << <<"choices", ListV(<<>>)>> >>),
      Case("lat_long", << <<"min_lat", IntV(10)>>, <<"max_lat", IntV(0 - 10)>> >>),
      Case("phone_e164", << <<"country_code", StrV("")>> >>),
      Case("string_pattern", << <<"pattern", StrV("[z-a]{0}")>> >>),
      Case("no_such_kind", <<>>) }
    \cup { Case(generator_type, <<>>) :
             generator_type \in {"uuid4", "date_iso8601", "enum_choice", "numeric_range", "email",
                                 "phone_e164", "string", "string_pattern", "country", "city",
                                 "lat_long", "fixed_value", "boolean", "first_name", "last_name",
                                 "full_name", "address", "company", "url", "currency"} }

\* every value the random source can be seeded to
StreamSeeds == 0..(Modulus - 1)

InitValue ==
    /\ pc = "value"
    /\ ret = None
    /\ now \in {0, MaxInstant}
    /\ \/ arg \in RangeCases /\ \E seed \in StreamSeeds : gens = << Generator(seed) >>
       \/ arg \in PolicyCases /\ \E seed \in Seeds : gens = << Generator(seed) >>

ValueCall(call) ==
    /\ ret' = Some([error |-> call.error, value |-> call.value])
    /\ gens' = << call.g >>

GenerateValue ==
    /\ pc = "value"
    /\ ret = None
    /\ ValueCall(generate_value(gens[1], arg.generator_type, arg.constraints, now))
    /\ UNCHANGED <<pc, arg, now>>

NextValue == GenerateValue

SpecValue == InitValue /\ [][NextValue]_vars

ValueReturned == pc = "value" /\ IsSome(ret) /\ Get(ret).error = ""
ValueRaised == pc = "value" /\ IsSome(ret) /\ Get(ret).error # ""

\* a constraint value as a number of hundredths
Hundredths(v) == IF v.k = "float" THEN float(v).value ELSE 100 * v.n

\* C13: int_range returns an integer v with min <= v <= max, min and max being the
\* constraints given (0 and 1000 when absent).
C13_IntRangeBounds ==
    (ValueReturned /\ arg.generator_type = "int_range") =>
        LET min == DictGet(arg.constraints, "min", IntV(0))
            max == DictGet(arg.constraints, "max", IntV(1000))
            v == Get(ret).value
        IN  (min.k \in {"int", "float"} /\ max.k \in {"int", "float"}) =>
                /\ v.k = "int"
                /\ Hundredths(min) <= 100 * v.n
                /\ 100 * v.n <= Hundredths(max)

\* what does hold: v lies between int(min) and int(max), the bounds cut to integers
IntRangeWithinCoerced ==
    (ValueReturned /\ arg.generator_type = "int_range") =>
        LET min_val == int(DictGet(arg.constraints, "min", IntV(0)))
            max_val == int(DictGet(arg.constraints, "max", IntV(1000)))
            v == Get(ret).value
        IN  v.k = "int" /\ min_val.value <= v.n /\ v.n <= max_val.value

\* the types a constraint is expected to have, by key
ExpectedKinds(key) ==
    CASE key \in {"min", "max", "min_lat", "max_lat", "min_long", "max_long"} -> {"int", "float"}
      [] key \in {"min_length", "max_length", "days_back", "days_forward", "precision"} -> {"int"}
      [] key = "choices" -> {"list"}
      [] OTHER -> {"str"}

WellTyped(constraints) ==
    \A i \in 1..Len(constraints) : constraints[i][2].k \in ExpectedKinds(constraints[i][1])

\* C14: generate_value raises only for type-coercion errors: for every constraints
\* map whose values have the expected types, whatever their magnitudes or relative
\* order, it returns a value and does not raise.
C14_NoRaiseWhenWellTyped ==
    (pc = "value" /\ IsSome(ret) /\ WellTyped(arg.constraints)) => Get(ret).error = ""

\* what does hold: with constraints of the expected types the only exception is the
\* ValueError of an empty randint range or of a text shorter than Faker accepts
RaisesOnlyForEmptyRange ==
    (ValueRaised /\ WellTyped(arg.constraints)) =>
        /\ Get(ret).error = "ValueError"
        /\ arg.generator_type \in {"int_range", "string", "timestamp_iso8601", "date_iso8601"}

(***************************************************************************)
(* llm_client.create_fallback_plan: a plan made from the schema fields     *)
(* alone, the generator of each field chosen by its name and type.         *)
(***************************************************************************)
Chosen(generator_type, constraints) ==
    [generator_type |-> generator_type, constraints |-> constraints]

\* the float a SchemaField bound holds, as a JSON number
Bound(n) == FloatV(100 * n, 2)

\* the if / elif chain of the loop body
Fallback(field) ==
    LET field_name_lower == lower(field.field_name)
        has(word) == contains(field_name_lower, word)
    IN  IF NonEmpty(field.enum_values)
        THEN Chosen("enum_choice",
                    << <<"choices", ListV([i \in 1..Len(Get(field.enum_values)) |->
                                             StrV(Get(field.enum_values)[i])])>> >>)
        ELSE IF has("email") THEN Chosen("email", <<>>)
        ELSE IF has("phone") THEN Chosen("phone_e164", <<>>)
        ELSE IF has("id") /\ field.field_type = "STRING" THEN Chosen("uuid4", <<>>)
        ELSE IF has("timestamp") \/ has("datetime") THEN Chosen("timestamp_iso8601", <<>>)
        ELSE IF has("date") \/ field.field_type = "DATE" THEN Chosen("date_iso8601", <<>>)
        ELSE IF has("name")
        THEN (IF has("first") THEN Chosen("first_name", <<>>)
              ELSE IF has("last") THEN Chosen("last_name", <<>>)
              ELSE Chosen("full_name", <<>>))
        ELSE IF has("country") THEN Chosen("country", <<>>)
        ELSE IF has("city") THEN Chosen("city", <<>>)
        ELSE IF has("address") THEN Chosen("address", <<>>)
        ELSE IF has("company") \/ has("org") THEN Chosen("company", <<>>)
        ELSE IF has("url") \/ has("link") THEN Chosen("url", <<>>)
        ELSE IF has("lat") \/ has("long") \/ has("coord") THEN Chosen("lat_long", <<>>)
        ELSE IF has("price") \/ has("amount") \/ has("cost")
        THEN Chosen("currency", << <<"min", IntV(0)>>, <<"max", IntV(10000)>> >>)
        ELSE IF field.field_type = "INTEGER"
        THEN Chosen("int_range",
                    << <<"min", IF IsSome(field.min_value) THEN IntV(Get(field.min_value))
                                ELSE IntV(0)>>,
                       <<"max", IF IsSome(field.max_value) THEN IntV(Get(field.max_value))
                                ELSE IntV(1000)>> >>)
        ELSE IF field.field_type = "NUMBER"
        THEN Chosen("numeric_range",
                    << <<"min", IF IsSome(field.min_value) THEN Bound(Get(field.min_value))
                                ELSE Bound(0)>>,
                       <<"max", IF IsSome(field.max_value) THEN Bound(Get(field.max_value))
                                ELSE Bound(1000)>> >>)
        ELSE IF field.field_type = "BOOLEAN" THEN Chosen("boolean", <<>>)
        ELSE Chosen("string",
                    << <<"min_length", IF IsSome(field.min_length) /\ Get(field.min_length) # 0
                                       THEN IntV(Get(field.min_length)) ELSE IntV(5)>>,
                       <<"max_length", IF IsSome(field.max_length) /\ Get(field.max_length) # 0
                                       THEN IntV(Get(field.max_length)) ELSE IntV(50)>> >>)

FallbackField(field, chosen) ==
    FieldGenerationPlan(field.field_name, chosen.generator_type, NullV, chosen.constraints)

\* a chooser that looks at the field type before the field name
FallbackTypeFirst(schema_fields) ==
    GenerationPlan([i \in 1..Len(schema_fields) |->
                      FallbackField(schema_fields[i],
                                    IF schema_fields[i].field_type \in {"INTEGER", "NUMBER", "BOOLEAN"}
                                    THEN Fallback([schema_fields[i] EXCEPT !.field_name = "x"])
                                    ELSE Fallback(schema_fields[i]))],
                   None)

create_fallback_plan(schema_fields) ==
    GenerationPlan([i \in 1..Len(schema_fields) |->
                      FallbackField(schema_fields[i], Fallback(schema_fields[i]))],
                   None)

FallbackNames ==
    {"Email", "email_phone", "phone_id", "userId", "id", "paid", "valid_date", "candidate",
     "event_timestamp", "updateDateTime", "birth_date", "created", "first_name", "LastName",
     "username", "first_last_name", "country_name", "country", "city", "home_address",
     "organization", "company", "profile_url", "link", "latitude", "belong", "coordinates",
     "platform", "price", "total_amount", "cost", "quantity", "flag", "notes"}

AllFieldTypes ==
    {"STRING", "INTEGER", "NUMBER", "BOOLEAN", "DATE", "DATETIME", "OBJECT", "ARRAY"}

SchemaFieldOf(field_name, field_type, enum_values) ==
    [SchemaField0 EXCEPT !.field_name = field_name, !.field_type = field_type,
                         !.enum_values = enum_values]

FallbackFields ==
    { SchemaFieldOf(field_name, field_type, enum_values) :
        field_name \in FallbackNames, field_type \in AllFieldTypes,
        enum_values \in {None, Some(<<>>), Some(<<"a", "b">>)} }

\* fields with bounds, and fields listed twice or in a telling order
BoundedFields ==
    { [SchemaFieldOf(field_name, field_type, None) EXCEPT
          !.min_value = min_value, !.max_value = max_value,
          !.min_length = min_value, !.max_length = max_value] :
        field_name \in {"quantity", "price"}, field_type \in {"STRING", "INTEGER", "NUMBER"},
        min_value \in {None, Some(0), Some(2)}, max_value \in {None, Some(0), Some(7)} }

ListedFields ==
    { SchemaFieldOf("id", "STRING", None), SchemaFieldOf("id", "INTEGER", None),
      SchemaFieldOf("notes", "STRING", Some(<<"a", "b">>)), SchemaFieldOf("city", "STRING", None) }

FallbackInputs ==
    { <<>> } \cup { <<field>> : field \in FallbackFields \cup BoundedFields }
        \cup { <<a, b>> : a \in ListedFields, b \in ListedFields }
        \cup { <<a, b, a>> : a \in ListedFields, b \in ListedFields }

InitFallback ==
    /\ pc = "fallback"
    /\ arg \in FallbackInputs
    /\ ret = None
    /\ now = 0
    /\ gens = <<>>

CreateFallbackPlan ==
    /\ pc = "fallback"
    /\ ret = None
    /\ ret' = Some(create_fallback_plan(arg))
    /\ UNCHANGED <<pc, arg, now, gens>>

NextFallback == CreateFallbackPlan

SpecFallback == InitFallback /\ [][NextFallback]_vars

\* the rules of the heuristic builder as a table, in the order they are tried:
\* whether the rule matches the field, and the generator kind it selects
NameHas(field, words) == \E word \in words : contains(lower(field.field_name), word)

FallbackRules(field) ==
    << <<NonEmpty(field.enum_values), "enum_choice">>,
       <<NameHas(field, {"email"}), "email">>,
       <<NameHas(field, {"phone"}), "phone_e164">>,
       <<NameHas(field, {"id"}) /\ field.field_type = "STRING", "uuid4">>,
       <<NameHas(field, {"timestamp", "datetime"}), "timestamp_iso8601">>,
       <<NameHas(field, {"date"}) \/ field.field_type = "DATE", "date_iso8601">>,
       <<NameHas(field, {"name"}) /\ NameHas(field, {"first"}), "first_name">>,
       <<NameHas(field, {"name"}) /\ NameHas(field, {"last"}), "last_name">>,
       <<NameHas(field, {"name"}), "full_name">>,
       <<NameHas(field, {"country"}), "country">>,
       <<NameHas(field, {"city"}), "city">>,
       <<NameHas(field, {"address"}), "address">>,
       <<NameHas(field, {"company", "org"}), "company">>,
       <<NameHas(field, {"url", "link"}), "url">>,
       <<NameHas(field, {"lat", "long", "coord"}), "lat_long">>,
       <<NameHas(field, {"price", "amount", "cost"}), "currency">>,
       <<field.field_type = "INTEGER", "int_range">>,
       <<field.field_type = "NUMBER", "numeric_range">>,
       <<field.field_type = "BOOLEAN", "boolean">>,
       <<TRUE, "string">> >>

FirstRule(rules) == CHOOSE i \in 1..Len(rules) : rules[i][1] /\ \A j \in 1..(i - 1) : ~rules[j][1]

RuleKind(field) == FallbackRules(field)[FirstRule(FallbackRules(field))][2]

\* C15: create_fallback_plan emits exactly one entry per input field, in input order
\* and with the same name, whose generator kind is that of the first rule of the
\* table that matches the field; names are matched whatever their letter case.
C15_FallbackKinds ==
    (pc = "fallback" /\ IsSome(ret)) =>
        /\ Len(Get(ret).fields) = Len(arg)
        /\ \A i \in 1..Len(arg) :
             /\ Get(ret).fields[i].field_name = arg[i].field_name
             /\ Get(ret).fields[i].generator_type = RuleKind(arg[i])
             /\ Get(ret).fields[i].generator_type
                  = RuleKind([arg[i] EXCEPT !.field_name = upper(arg[i].field_name)])

\* a name that matches several rules takes the first one that applies: the integer
\* field valid_date contains both id and date, is no uuid4 (that needs a string) and
\* becomes a date, not an int_range
C15_Witness ==
    /\ pc = "fallback" /\ IsSome(ret)
    /\ Len(arg) = 1
    /\ arg[1].field_name = "valid_date"
    /\ arg[1].field_type = "INTEGER"
    /\ Get(ret).fields[1].generator_type = "date_iso8601"

(***************************************************************************)
(* json.loads on the completion texts considered: objects, arrays, strings *)
(* without escapes, integers, true, false and null, with JSON whitespace.  *)
(* A text it does not accept raises JSONDecodeError (ok = FALSE).          *)
(***************************************************************************)
WHITESPACE == {" ", "\t", "\n", "\r"}

RECURSIVE SkipWs(_, _)
SkipWs(text, i) ==
    IF i <= Len(text) /\ Char(text, i) \in WHITESPACE THEN SkipWs(text, i + 1) ELSE i

Parsed(value, next) == [ok |-> TRUE, value |-> value, next |-> next]
NotParsed == [ok |-> FALSE, value |-> NullV, next |-> 0]

\* the position of the quote that closes a string, 0 when there is none
RECURSIVE CloseQuote(_, _)
CloseQuote(text, j) ==
    IF j > Len(text) THEN 0
    ELSE IF Char(text, j) = "\"" THEN j
    ELSE IF Char(text, j) \in {"\n", "\t", "\r", "\\"} THEN 0
    ELSE CloseQuote(text, j + 1)

RECURSIVE DigitsEnd(_, _)
DigitsEnd(text, j) ==
    IF j <= Len(text) /\ isdigit(Char(text, j)) THEN DigitsEnd(text, j + 1) ELSE j

At0(text, i, word) ==
    i >= 1 /\ i + Len(word) - 1 <= Len(text) /\ SubSeq(text, i, i + Len(word) - 1) = word

ParseString(text, i, close) ==
    IF close = 0 THEN NotParsed ELSE Parsed(StrV(SubSeq(text, i + 1, close - 1)), close + 1)

ParseNumber(text, i, first, end) ==
    IF end = first THEN NotParsed
    ELSE IF Char(text, first) = "0"
    THEN Parsed(IntV(0), first + 1)
    ELSE Parsed(IntV(IF first > i THEN 0 - DigitsValue(SubSeq(text, first, end - 1))
                     ELSE DigitsValue(SubSeq(text, first, end - 1))), end)

RECURSIVE ParseValue(_, _)
RECURSIVE ParseMembers(_, _, _)
RECURSIVE AfterMember(_, _, _, _)
RECURSIVE MemberEnd(_, _, _)
RECURSIVE ParseElements(_, _, _)
RECURSIVE ElementEnd(_, _, _)
RECURSIVE AfterElement(_, _, _)

\* "key": value, then a comma and the next member, or the closing brace
MemberEnd(text, entries, j) ==
    IF j > Len(text) THEN NotParsed
    ELSE IF Char(text, j) = "," THEN ParseMembers(text, SkipWs(text, j + 1), entries)
    ELSE IF Char(text, j) = "}" THEN Parsed(MapV(entries), j + 1)
    ELSE NotParsed

AfterMember(text, entries, key, member) ==
    IF ~member.ok THEN NotParsed
    ELSE MemberEnd(text, DictPut(entries, key, member.value), SkipWs(text, member.next))

MemberValue(text, entries, key, colon) ==
    IF colon > Len(text) THEN NotParsed
    ELSE IF Char(text, colon) # ":" THEN NotParsed
    ELSE AfterMember(text, entries, key, ParseValue(text, SkipWs(text, colon + 1)))

MemberKey(text, entries, k, close) ==
    IF close = 0 THEN NotParsed
    ELSE MemberValue(text, entries, SubSeq(text, k + 1, close - 1), SkipWs(text, close + 1))

ParseMembers(text, k, entries) ==
    IF k > Len(text) THEN NotParsed
    ELSE IF Char(text, k) # "\"" THEN NotParsed
    ELSE MemberKey(text, entries, k, CloseQuote(text, k + 1))

ElementEnd(text, items, j) ==
    IF j > Len(text) THEN NotParsed
    ELSE IF Char(text, j) = "," THEN ParseElements(text, SkipWs(text, j + 1), items)
    ELSE IF Char(text, j) = "]" THEN Parsed(ListV(items), j + 1)
    ELSE NotParsed

AfterElement(text, items, element) ==
    IF ~element.ok THEN NotParsed
    ELSE ElementEnd(text, Append(items, element.value), SkipWs(text, element.next))

ParseElements(text, i, items) == AfterElement(text, items, ParseValue(text, i))

Opened(text, i, closer, empty) ==
    IF i <= Len(text) /\ Char(text, i) = closer THEN Parsed(empty, i + 1)
    ELSE IF closer = "}" THEN ParseMembers(text, i, <<>>)
    ELSE ParseElements(text, i, <<>>)

\* the JSON value that starts at position i
ParseValue(text, i) ==
    IF i > Len(text) THEN NotParsed
    ELSE IF Char(text, i) = "{" THEN Opened(text, SkipWs(text, i + 1), "}", MapV(<<>>))
    ELSE IF Char(text, i) = "[" THEN Opened(text, SkipWs(text, i + 1), "]", ListV(<<>>))
    ELSE IF Char(text, i) = "\"" THEN ParseString(text, i, CloseQuote(text, i + 1))
    ELSE IF At0(text, i, "null") THEN Parsed(NullV, i + 4)
    ELSE IF At0(text, i, "true") THEN Parsed(BoolV(TRUE), i + 4)
    ELSE IF At0(text, i, "false") THEN Parsed(BoolV(FALSE), i + 5)
    ELSE IF Char(text, i) = "-" THEN ParseNumber(text, i, i + 1, DigitsEnd(text, i + 1))
    ELSE ParseNumber(text, i, i, DigitsEnd(text, i))

\* the whole text must be one value, whitespace around it allowed
WholeText(text, parsed) ==
    IF parsed.ok /\ SkipWs(text, parsed.next) > Len(text) THEN parsed ELSE NotParsed

json_loads(text) == WholeText(text, ParseValue(text, SkipWs(text, 1)))

(***************************************************************************)
(* llm_client._parse_llm_response: the plan read from a completion text.   *)
(* Three apostrophes stand for the three grave accents of a markdown code  *)
(* fence, which a string of this module cannot contain.                    *)
(***************************************************************************)
FENCE == "'''"

GeneratorTypeValues ==
    {"uuid4", "timestamp_iso8601", "date_iso8601", "enum_choice", "int_range", "numeric_range",
     "email", "phone_e164", "string", "string_pattern", "country", "city", "lat_long",
     "fixed_value", "boolean", "first_name", "last_name", "full_name", "address", "company",
     "url", "currency"}

\* str.strip()
RECURSIVE StripAll(_)
StripAll(s) ==
    IF Len(s) > 0 /\ Char(s, 1) \in WHITESPACE THEN StripAll(SubSeq(s, 2, Len(s)))
    ELSE IF Len(s) > 0 /\ Char(s, Len(s)) \in WHITESPACE THEN StripAll(SubSeq(s, 1, Len(s) - 1))
    ELSE s

\* the loop over the lines: those between the first fence line and the next one
RECURSIVE FencedLines(_, _, _)
FencedLines(lines, in_json, json_lines) ==
    IF Len(lines) = 0 THEN json_lines
    ELSE IF startswith(StripAll(Head(lines)), FENCE) /\ ~in_json
    THEN FencedLines(Tail(lines), TRUE, json_lines)
    ELSE IF startswith(StripAll(Head(lines)), FENCE) /\ in_json THEN json_lines
    ELSE IF in_json THEN FencedLines(Tail(lines), TRUE, Append(json_lines, Head(lines)))
    ELSE FencedLines(Tail(lines), FALSE, json_lines)

\* "\n".join(lines)
RECURSIVE JoinLines(_)
JoinLines(lines) ==
    IF Len(lines) = 0 THEN ""
    ELSE IF Len(lines) = 1 THEN Head(lines)
    ELSE Head(lines) \o "\n" \o JoinLines(Tail(lines))

Joined(text, json_lines) == IF Len(json_lines) > 0 THEN JoinLines(json_lines) ELSE text

Unfenced(text) ==
    IF contains(text, FENCE) THEN Joined(text, FencedLines(split(text, "\n"), FALSE, <<>>))
    ELSE text

\* str.rfind as a position, 0 when the character does not occur
LastIndexIn(c, s) ==
    IF \E i \in 1..Len(s) : Char(s, i) = c
    THEN CHOOSE i \in 1..Len(s) : Char(s, i) = c /\ \A j \in (i + 1)..Len(s) : Char(s, j) # c
    ELSE 0

\* text[start_idx:end_idx], from the first "{" to the last "}"
Cut(text, start, end) == IF start >= 1 /\ end >= start THEN SubSeq(text, start, end) ELSE text

Braced(text) == Cut(text, IndexIn("{", text), LastIndexIn("}", text))

\* pieces[lo] \o ... \o pieces[hi]
RECURSIVE Concat(_, _, _)
Concat(pieces, lo, hi) ==
    IF lo > hi THEN ""
    ELSE IF lo = hi THEN pieces[lo]
    ELSE Concat(pieces, lo, (lo + hi) \div 2) \o Concat(pieces, (lo + hi) \div 2 + 1, hi)

\* a comma with only whitespace between it and a closing brace or bracket
TrailingComma(text, i) ==
    /\ Char(text, i) = ","
    /\ SkipWs(text, i + 1) <= Len(text)
    /\ Char(text, SkipWs(text, i + 1)) \in {"}", "]"}

\* re.sub(r',(\s*[}\]])', r'\1', text)
RemoveTrailingCommas(text) ==
    Concat([i \in 1..Len(text) |-> IF TrailingComma(text, i) THEN "" ELSE Char(text, i)],
           1, Len(text))

\* re.search(r'"fields"\s*:\s*\[', text): the position of its "[", 0 without a match
FieldsAt(text, i) ==
    /\ At0(text, i, "\"fields\"")
    /\ At0(text, SkipWs(text, i + 8), ":")
    /\ At0(text, SkipWs(text, SkipWs(text, i + 8) + 1), "[")

FieldsBracket(text) ==
    IF \E i \in 1..Len(text) : FieldsAt(text, i)
    THEN SkipWs(text, SkipWs(text, (CHOOSE i \in 1..Len(text) :
                                       FieldsAt(text, i) /\ \A j \in 1..(i - 1) : ~FieldsAt(text, j))
                                   + 8) + 1)
    ELSE 0

\* bracket_count after the character at position i, counting from bracket_start
BracketCount(text, bracket_start, i) ==
    Cardinality({ j \in bracket_start..i : Char(text, j) = "[" })
        - Cardinality({ j \in bracket_start..i : Char(text, j) = "]" })

\* the loop that counts brackets: the position of the "]" that brings the count back
\* to zero, 0 when there is none
BracketEnd(text, bracket_start) ==
    IF \E i \in bracket_start..Len(text) : BracketCount(text, bracket_start, i) = 0
    THEN CHOOSE i \in bracket_start..Len(text) :
            /\ BracketCount(text, bracket_start, i) = 0
            /\ \A j \in bracket_start..(i - 1) : BracketCount(text, bracket_start, j) # 0
    ELSE 0

NoData == [ok |-> FALSE, value |-> NullV]
Data(value) == [ok |-> TRUE, value |-> value]

\* data = {"fields": fields_array, "use_case": use_case}
FieldsData(fields_array) ==
    IF fields_array.ok THEN Data(MapV(<< <<"fields", fields_array.value>> >>)) ELSE NoData

FieldsArray(text, bracket_start, bracket_end) ==
    IF bracket_end > bracket_start
    THEN FieldsData(json_loads(SubSeq(text, bracket_start, bracket_end)))
    ELSE NoData

ExtractFields(text, bracket_start) ==
    IF bracket_start = 0 THEN NoData
    ELSE FieldsArray(text, bracket_start, BracketEnd(text, bracket_start))

\* the repairs tried when json.loads(text) fails
Fixed(text, fixed) == IF fixed.ok THEN Data(fixed.value) ELSE ExtractFields(text, FieldsBracket(text))

Loaded(text, parsed) ==
    IF parsed.ok THEN Data(parsed.value)
    ELSE Fixed(text, json_loads(RemoveTrailingCommas(text)))

LoadData(text) == Loaded(text, json_loads(text))

\* one entry of data["fields"]
FieldPlanOf(field_data) ==
    IF field_data.k # "map" THEN [error |-> "AttributeError", field |-> NullV]
    ELSE IF ~HasKey(field_data.e, "field_name") THEN [error |-> "LLMClientError", field |-> NullV]
    ELSE IF Lookup(field_data.e, "field_name").k # "str"
    THEN [error |-> "LLMClientError", field |-> NullV]
    ELSE IF DictGet(field_data.e, "constraints", MapV(<<>>)).k # "map"
    THEN [error |-> "LLMClientError", field |-> NullV]
    ELSE [error |-> "",
          field |-> FieldGenerationPlan(
                        Lookup(field_data.e, "field_name").s,
                        IF /\ DictGet(field_data.e, "generator_type", StrV("string")).k = "str"
                           /\ DictGet(field_data.e, "generator_type", StrV("string")).s
                                \in GeneratorTypeValues
                        THEN DictGet(field_data.e, "generator_type", StrV("string")).s
                        ELSE "string",
                        DictGet(field_data.e, "suggested_value", NullV),
                        DictGet(field_data.e, "constraints", MapV(<<>>)).e)]

Raise(error, message) == [error |-> error, message |-> message, plan |-> GenerationPlan(<<>>, None)]

\* the loop over data["fields"]
RECURSIVE FieldPlans(_, _)
NextFieldPlan(items, field_plans, made) ==
    IF made.error = "LLMClientError" THEN Raise("LLMClientError", "Invalid field plan in response")
    ELSE IF made.error # "" THEN Raise(made.error, "")
    ELSE FieldPlans(Tail(items), Append(field_plans, made.field))

FieldPlans(items, field_plans) ==
    IF Len(items) = 0
    THEN [error |-> "", message |-> "", plan |-> GenerationPlan(field_plans, None)]
    ELSE NextFieldPlan(items, field_plans, FieldPlanOf(Head(items)))

\* iterating data["fields"]: a list gives its items, a dict its keys, a string its
\* characters, anything else is not iterable
Iterate(fields) ==
    IF fields.k = "list" THEN FieldPlans(fields.items, <<>>)
    ELSE IF fields.k = "map"
    THEN FieldPlans([i \in 1..Len(fields.e) |-> StrV(fields.e[i][1])], <<>>)
    ELSE IF fields.k = "str" THEN FieldPlans([i \in 1..Len(fields.s) |-> StrV(Char(fields.s, i))], <<>>)
    ELSE Raise("TypeError", "")

\* from `if data is None` on
PlanOf(data) ==
    IF ~data.ok THEN Raise("LLMClientError", "Failed to parse LLM response as JSON")
    ELSE IF data.value.k = "map"
    THEN (IF HasKey(data.value.e, "fields") THEN Iterate(Lookup(data.value.e, "fields"))
          ELSE Raise("LLMClientError", "LLM response missing 'fields' key"))
    ELSE IF data.value.k = "list"
    THEN (IF \E i \in 1..Len(data.value.items) : data.value.items[i] = StrV("fields")
          THEN Raise("TypeError", "")
          ELSE Raise("LLMClientError", "LLM response missing 'fields' key"))
    ELSE IF data.value.k = "str"
    THEN (IF contains(data.value.s, "fields") THEN Raise("TypeError", "")
          ELSE Raise("LLMClientError", "LLM response missing 'fields' key"))
    ELSE Raise("TypeError", "")

parse_llm_response(response_text) == PlanOf(LoadData(Braced(Unfenced(StripAll(response_text)))))

(***************************************************************************)
(* Completion texts: plan objects as a completion service writes them, in  *)
(* the forms a chat model wraps them in, and texts that hold no plan.      *)
(***************************************************************************)
PlainObjects ==
    { "{\"fields\":[{\"field_name\":\"a\",\"generator_type\":\"city\"}],\"use_case\":\"u\"}",
      "{\"fields\":[{\"field_name\":\"id\",\"generator_type\":\"uuid4\",\"suggested_value\":null,\"constraints\":{}},{\"field_name\":\"n\",\"generator_type\":\"int_range\",\"constraints\":{\"min\":1,\"max\":-5}}]}",
      "{\"fields\": [ {\"field_name\": \"tier\", \"generator_type\": \"enum_choice\", \"constraints\": {\"choices\": [\"x\", \"y\"]}} ]}",
      "{\"fields\":[{\"field_name\":\"s\",\"generator_type\":\"magic\",\"suggested_value\":false}]}",
      "{\"use_case\":\"u\",\"fields\":[]}" }

\* objects with a string that holds a comma right before a closing bracket or brace
CommaObjects ==
    { "{\"fields\":[{\"field_name\":\"c\",\"generator_type\":\"string_pattern\",\"constraints\":{\"pattern\":\"[A-Z,]{3}\"}}]}",
      "{\"fields\":[{\"field_name\":\"t\",\"generator_type\":\"fixed_value\",\"suggested_value\":\"{a, }\"}]}" }

PlanObjectTexts == PlainObjects \cup CommaObjects

\* a comma put before every closing brace or bracket that ends a non-empty
\* object or array
InString(text, i) == Cardinality({ j \in 1..i : Char(text, j) = "\"" }) % 2 = 1

WithTrailingCommas(text) ==
    Concat([i \in 1..Len(text) |->
              IF /\ ~InString(text, i)
                 /\ Char(text, i) \in {"}", "]"}
                 /\ Char(text, i - 1) \notin {"{", "[", " "}
              THEN "," \o Char(text, i) ELSE Char(text, i)],
           1, Len(text))

Fenced(object) == FENCE \o "json\n" \o object \o "\n" \o FENCE
InProse(body) == "Here is the plan:\n" \o body \o "\nLet me know if it fits."

\* the forms of an object: clean, fenced, in prose, with trailing commas, and mixes
Forms(object) ==
    { [object |-> object, form |-> "clean", text |-> object],
      [object |-> object, form |-> "clean", text |-> "\n " \o object \o " \n"],
      [object |-> object, form |-> "fenced", text |-> Fenced(object)],
      [object |-> object, form |-> "fenced", text |-> "Sure.\n" \o Fenced(object) \o "\nDone."],
      [object |-> object, form |-> "fenced", text |-> FENCE \o "\n" \o object \o FENCE],
      [object |-> object, form |-> "prose", text |-> InProse(object)],
      [object |-> object, form |-> "prose", text |-> "Use {braces}: " \o object \o " :-}"],
      [object |-> object, form |-> "commas", text |-> WithTrailingCommas(object)],
      [object |-> object, form |-> "commas",
       text |-> InProse(Fenced(WithTrailingCommas(object)))] }

NoPlanTexts ==
    { "", "I cannot help with that.", "[1, 2]", "{\"plan\":[]}", "{\"fields\":null}",
      "{\"fields\":[\"a\"]}", "{\"fields\":[{\"generator_type\":\"city\"}]}",
      "{\"fields\":[{\"field_name\":\"a\",\"constraints\":[]}]}",
      "{\"fields\":[{\"field_name\":\"a\",}",
      "{\"fields\": [{\"field_name\":\"a\"}], \"use_case\": oops}",
      "{\"fields\":[{\"field_name\":\"a\"},], \"use_case\": oops}" }

CompletionTexts ==
    UNION { Forms(object) : object \in PlanObjectTexts }
        \cup { [object |-> "", form |-> "none", text |-> text] : text \in NoPlanTexts }

InitParse ==
    /\ pc = "parse"
    /\ arg \in CompletionTexts
    /\ ret = None
    /\ now = 0
    /\ gens = <<>>

ParseLLMResponse ==
    /\ pc = "parse"
    /\ ret = None
    /\ ret' = Some(parse_llm_response(arg.text))
    /\ UNCHANGED <<pc, arg, now, gens>>

NextParse == ParseLLMResponse

SpecParse == InitParse /\ [][NextParse]_vars

ParseError == "Failed to parse LLM response as JSON"

\* the text the JSON reader is given: fence and surrounding prose taken off
Prepared(text) == Braced(Unfenced(StripAll(text)))

\* C17 (i)-(iv): for a text that is a plan object, clean, in a code fence, within
\* prose or with trailing commas, the plan returned is the plan of the clean object;
\* and the parse error is raised only when the text, the text without trailing
\* commas and the bracket-balanced fields array all fail to load.
C17_TolerantParsing ==
    (pc = "parse" /\ IsSome(ret)) =>
        /\ arg.object # "" =>
             /\ Get(ret).error = ""
             /\ Get(ret) = parse_llm_response(arg.object)
        /\ Get(ret).message = ParseError =>
             /\ ~json_loads(Prepared(arg.text)).ok
             /\ ~json_loads(RemoveTrailingCommas(Prepared(arg.text))).ok
             /\ ~ExtractFields(Prepared(arg.text), FieldsBracket(Prepared(arg.text))).ok

\* what does hold: the same, for objects none of whose strings holds a comma followed
\* by a closing brace or bracket
TolerantParsingPlainObjects ==
    arg.object \in CommaObjects \/ C17_TolerantParsing

(***************************************************************************)
(* generate_plan of the three clients: a request is posted, the completion *)
(* text is parsed, and a text the parser rejects makes the call call       *)
(* itself once more with retry=False.  frames is the stack of running      *)
(* generate_plan calls, each with its retry flag and its local messages;   *)
(* requests logs the messages of every request posted.                     *)
(***************************************************************************)
Providers == {"Perplexity", "OpenAI", "Anthropic"}

Message(role, content) == [role |-> role, content |-> content]

StricterPrompt ==
    "That response was not valid JSON. Please respond with ONLY a valid JSON object, no other text or formatting."

\* the messages a call starts with (the Anthropic request carries the system prompt
\* beside them)
InitialMessages(provider) ==
    IF provider = "Anthropic" THEN << Message("user", "<user prompt>") >>
    ELSE << Message("system", "<system prompt>"), Message("user", "<user prompt>") >>

Frame(provider, retry) == [retry |-> retry, messages |-> InitialMessages(provider)]

RetryTexts ==
    { "{\"fields\":[{\"field_name\":\"a\",\"generator_type\":\"city\"}]}",
      "Sure.\n'''json\n{\"fields\":[{\"field_name\":\"a\",\"generator_type\":\"city\",}]}\n'''",
      "I cannot help with that.",
      "{\"fields\":[{\"generator_type\":\"city\"}]}",
      "{\"fields\":null}",
      "{\"fields\":[\"a\"]}" }

\* what the completion service does with a request
Responses ==
    { [kind |-> kind, text |-> ""] : kind \in {"transport", "status", "malformed"} }
        \cup { [kind |-> "text", text |-> text] : text \in RetryTexts }

InitPlan ==
    /\ pc = "post"
    /\ \E provider \in Providers :
         arg = [provider |-> provider, frames |-> << Frame(provider, TRUE) >>,
                requests |-> <<>>, responses |-> <<>>]
    /\ ret = None
    /\ now = 0
    /\ gens = <<>>

Running == arg.frames[Len(arg.frames)]

\* an exception leaving the running call: `except Exception` of every call on the
\* stack turns it into an LLMClientError around its message
RECURSIVE Wrapped(_, _, _)
Wrapped(provider, message, depth) ==
    IF depth = 0 THEN message
    ELSE Wrapped(provider, provider \o " API call failed: " \o message, depth - 1)

Surfaced(message, depth) ==
    Some([error |-> "LLMClientError", message |-> Wrapped(arg.provider, message, depth),
          plan |-> GenerationPlan(<<>>, None)])

\* the request is posted; the service fails, or answers with a completion text
Post(response) ==
    /\ pc = "post"
    /\ arg' = [arg EXCEPT !.requests = Append(@, Running.messages),
                          !.responses = Append(@, response)]
    /\ IF response.kind = "text"
       THEN pc' = "parse" /\ ret' = ret
       ELSE /\ pc' = "raised"
            /\ ret' = IF response.kind = "status"
                      THEN Surfaced(arg.provider \o " API error: 500", Len(arg.frames) - 1)
                      ELSE Surfaced(response.kind, Len(arg.frames))
    /\ UNCHANGED <<now, gens>>

\* the retry: the Perplexity client appends the failed response and a stricter
\* prompt to its messages, then every client calls generate_plan(retry=False)
Retried(messages, response_text) ==
    IF arg.provider = "Perplexity"
    THEN messages \o << Message("assistant", response_text), Message("user", StricterPrompt) >>
    ELSE messages

Parsed0(response_text, parsed) ==
    IF parsed.error = ""
    THEN pc' = "returned" /\ ret' = Some(parsed) /\ arg' = arg
    ELSE IF parsed.error = "LLMClientError" /\ Running.retry
    THEN /\ pc' = "post"
         /\ ret' = ret
         /\ arg' = [arg EXCEPT !.frames =
                      Append([@ EXCEPT ![Len(@)].messages = Retried(@, response_text)],
                             Frame(arg.provider, FALSE))]
    ELSE /\ pc' = "raised"
         /\ ret' = Surfaced(IF parsed.error = "LLMClientError" THEN parsed.message
                            ELSE parsed.error, Len(arg.frames))
         /\ arg' = arg

Parse ==
    /\ pc = "parse"
    /\ Parsed0(arg.responses[Len(arg.responses)].text,
               parse_llm_response(arg.responses[Len(arg.responses)].text))
    /\ UNCHANGED <<now, gens>>

NextPlan ==
    \/ \E response \in Responses : Post(response)
    \/ Parse

SpecPlan == InitPlan /\ [][NextPlan]_vars

PlanDone == pc \in {"returned", "raised"}
PlanPcs == {"post", "parse", "returned", "raised"}

\* the completion text of request k could not be made into a plan
Unparsed(k) ==
    /\ k <= Len(arg.responses)
    /\ arg.responses[k].kind = "text"
    /\ (pc = "parse" => k < Len(arg.responses))
    /\ parse_llm_response(arg.responses[k].text).error # ""

\* the parser rejected the completion text of request k with its own error
Rejected(k) ==
    /\ Unparsed(k)
    /\ parse_llm_response(arg.responses[k].text).error = "LLMClientError"

\* C16: when the first completion text cannot be parsed into a plan the service is
\* called exactly one more time; when the second cannot be parsed either the error
\* is surfaced and there is no third call; a transport or HTTP-status error on the
\* first request is surfaced without a retry.
C16_RetryOnce ==
    (pc \in PlanPcs /\ PlanDone) =>
        /\ Len(arg.requests) <= 2
        /\ Unparsed(1) => Len(arg.requests) = 2
        /\ (Unparsed(1) /\ Unparsed(2)) => (pc = "raised" /\ Get(ret).error = "LLMClientError")
        /\ arg.responses[1].kind # "text" =>
             (Len(arg.requests) = 1 /\ pc = "raised" /\ Get(ret).error = "LLMClientError")

\* what does hold: the same with "rejected by the parser with its own error" in
\* place of "cannot be parsed"; a text that makes the parser fail with another
\* exception is surfaced at once
RetryOnceOnClientError ==
    (pc \in PlanPcs /\ PlanDone) =>
        /\ Len(arg.requests) <= 2
        /\ Rejected(1) <=> Len(arg.requests) = 2
        /\ (Unparsed(1) /\ ~Rejected(1)) => (pc = "raised" /\ Get(ret).error = "LLMClientError")
        /\ (Rejected(1) /\ Unparsed(2)) => (pc = "raised" /\ Get(ret).error = "LLMClientError")
        /\ arg.responses[1].kind # "text" =>
             (Len(arg.requests) = 1 /\ pc = "raised" /\ Get(ret).error = "LLMClientError")

\* C18: the retry request carries the conversation of the first request with the
\* failed assistant response and the stricter user prompt appended.
C18_StricterRetryPrompt ==
    (pc \in PlanPcs /\ Len(arg.requests) = 2) =>
        arg.requests[2] = arg.requests[1]
                            \o << Message("assistant", arg.responses[1].text),
                                  Message("user", StricterPrompt) >>

\* what does hold: the retry request carries the messages of the first request
RetryRepeatsRequest ==
    (pc \in PlanPcs /\ Len(arg.requests) = 2) => arg.requests[2] = arg.requests[1]

\* C19: every timestamp produced by timestamp_iso8601 lies at most days_back days
\* (30 when absent) before the instant of the call, and never after that instant.
C19_TimestampWindow ==
    (ValueReturned /\ arg.generator_type = "timestamp_iso8601") =>
        LET days_back == DictGet(arg.constraints, "days_back", IntV(30)).n
            timestamp == Get(ret).value.n
        IN  /\ now - days_back * SecondsPerDay <= timestamp
            /\ timestamp <= now

\* what does hold: the timestamp is never after the call and less than days_back + 1
\* days before it
TimestampWithinOneMoreDay ==
    (ValueReturned /\ arg.generator_type = "timestamp_iso8601") =>
        LET days_back == DictGet(arg.constraints, "days_back", IntV(30)).n
            timestamp == Get(ret).value.n
        IN  /\ now - (days_back + 1) * SecondsPerDay < timestamp
            /\ timestamp <= now

(***************************************************************************)
(* Suggested values in generate_payload (checked on SpecOneGenerator)      *)
(***************************************************************************)
Parts(field_plan) == split(field_plan.field_name, ".")

IsPrefix(a, b) == Len(a) <= Len(b) /\ SubSeq(b, 1, Len(a)) = a

\* no later field of the plan writes at, above or below the path of field i
Untouched(fields, i) ==
    \A j \in (i + 1)..Len(fields) :
        /\ ~IsPrefix(Parts(fields[j]), Parts(fields[i]))
        /\ ~IsPrefix(Parts(fields[i]), Parts(fields[j]))

\* the fields of the plan that have no suggested value
RECURSIVE Generated(_)
Generated(fields) ==
    IF Len(fields) = 0 THEN <<>>
    ELSE IF fields[1].suggested_value = NullV THEN <<fields[1]>> \o Generated(Tail(fields))
    ELSE Generated(Tail(fields))

\* the instance as it was when its last call started, if no reset_seed came after
Before(i, call) == [seed |-> gens[i].g.seed, rng |-> call.start[1], faker |-> call.start[2]]

\* C20: a successful generate_payload call puts every suggested value that is not
\* null into the record as it is, the falsy values 0, false and "" included, and
\* draws from the random source for the fields without a suggested value only: the
\* source ends where generating those fields alone would leave it.
C20_SuggestedValueUsed ==
    pc = "generator" =>
        \A i \in Instances :
            \A k \in 1..Len(Calls(i)) :
                Calls(i)[k].error = "" =>
                    /\ \A f \in 1..Len(arg.fields) :
                         (arg.fields[f].suggested_value # NullV /\ Untouched(arg.fields, f)) =>
                             At(Calls(i)[k].value, Parts(arg.fields[f]))
                                = arg.fields[f].suggested_value
                    /\ (\A f \in 1..Len(arg.fields) : arg.fields[f].suggested_value # NullV)
                          => Calls(i)[k].end = Calls(i)[k].start
                    /\ Calls(i)[k].resets = gens[i].resets =>
                          Calls(i)[k].end
                            = Position(generate_payload(Before(i, Calls(i)[k]),
                                                        GenerationPlan(Generated(arg.fields), None),
                                                        now).g)

\* the plan whose first field suggests 0 for an int_range and whose second field is
\* generated: the record holds the 0 and the source has moved for the second field
C20_Witness ==
    /\ pc = "generator"
    /\ Len(gens) = 1 /\ Len(Calls(1)) >= 1
    /\ Len(arg.fields) = 2
    /\ arg.fields[1].suggested_value = IntV(0)
    /\ Calls(1)[1].error = ""
    /\ At(Calls(1)[1].value, <<"count">>) = IntV(0)
    /\ Calls(1)[1].end # Calls(1)[1].start

\* C21: a dotted path whose intermediate segment already holds a value that is not
\* a mapping replaces nothing: the write raises TypeError, the value stays at its
\* segment and the record is as it was before the write.
C21_NoOverwrite ==
    (pc = "writes" /\ IsSome(ret) /\ Dotted(LastWrite.path)) =>
        LET parts == split(LastWrite.path, ".")
        IN  Collides(LastWrite.before, parts) =>
                /\ LastWrite.error = "TypeError"
                /\ arg.payload = LastWrite.before
                /\ \A k \in 1..(Len(parts) - 1) :
                       LET old == At(LastWrite.before, Prefix(parts, k))
                       IN  (old # Missing /\ old.k # "map") =>
                               At(arg.payload, Prefix(parts, k)) = old

\* `a` set to the integer 1, then `a.b` written
C21_Witness ==
    /\ pc = "writes" /\ IsSome(ret)
    /\ LastWrite.path = "a.b" /\ LastWrite.error = "TypeError"
    /\ At(LastWrite.before, <<"a">>) = IntV(1)
    /\ At(arg.payload, <<"a">>) = IntV(1)

(***************************************************************************)
(* One generate_string_pattern call.  A pattern is written down as a list  *)
(* of constructs: a bracketed class of single characters and ranges with   *)
(* or without a count, \d, \w, a literal character, a metacharacter; the   *)
(* text handed to the generator is their concatenation.  A class without a *)
(* count is not directly followed by an opening brace (that text would be  *)
(* a count), and a hyphen stands alone only at the start of a class.       *)
(***************************************************************************)
Construct0(k, items, count, c) == [k |-> k, items |-> items, count |-> count, c |-> c]
CharClass(items, count) == Construct0("class", items, count, "")
Literal(c) == Construct0("literal", <<>>, None, c)
Meta(c) == Construct0("meta", <<>>, None, c)

Constructs ==
    { CharClass(<< <<"A", "Z">> >>, Some(3)),
      CharClass(<< <<"0", "9">> >>, Some(4)),
      CharClass(<< <<"a", "c">> >>, None),
      CharClass(<< <<"x">> >>, Some(2)),
      CharClass(<< <<"0", "9">>, <<"a", "f">> >>, None),
      CharClass(<< <<".">>, <<"+">> >>, Some(0)),
      CharClass(<< <<"-">>, <<"a">>, <<"X", "Z">>, <<"_">> >>, Some(2)),
      Construct0("digit", <<>>, None, ""),
      Construct0("word", <<>>, None, ""),
      Literal("a"), Literal("-"), Literal("7"), Literal(" "), Literal("]") }
    \cup { Meta(Char(METACHARACTERS, i)) : i \in 1..Len(METACHARACTERS) }

ItemText(item) == IF Len(item) = 1 THEN item[1] ELSE item[1] \o "-" \o item[2]

RECURSIVE ItemsText(_)
ItemsText(items) == IF items = <<>> THEN "" ELSE ItemText(Head(items)) \o ItemsText(Tail(items))

ConstructText(t) ==
    CASE t.k = "class" -> "[" \o ItemsText(t.items) \o "]"
                            \o (IF IsSome(t.count) THEN "{" \o IntToStr(Get(t.count)) \o "}" ELSE "")
      [] t.k = "digit" -> "\\d"
      [] t.k = "word" -> "\\w"
      [] OTHER -> t.c

RECURSIVE PatternText(_)
PatternText(ts) == IF ts = <<>> THEN "" ELSE ConstructText(Head(ts)) \o PatternText(Tail(ts))

WellFormed(ts) ==
    \A i \in 1..(Len(ts) - 1) :
        (ts[i].k = "class" /\ ts[i].count = None) => ts[i + 1] # Meta("{")

ConstructLists ==
    { ts \in { <<t>> : t \in Constructs } \cup (Constructs \X Constructs)
                \cup (Constructs \X Constructs \X Constructs) : WellFormed(ts) }

\* the characters a class stands for: its single characters and those of its ranges
Members(items) ==
    UNION { IF Len(items[i]) = 1 THEN { items[i][1] }
            ELSE { chr(code) : code \in ord(items[i][1])..ord(items[i][2]) } :
            i \in 1..Len(items) }

CharsOf(s) == { Char(s, i) : i \in 1..Len(s) }

\* what the constructs stand for: per output position, the characters allowed there
ConstructSlots(t) ==
    CASE t.k = "class" -> [i \in 1..(IF IsSome(t.count) THEN Get(t.count) ELSE 1) |->
                              Members(t.items)]
      [] t.k = "digit" -> << CharsOf(DIGITS) >>
      [] t.k = "word" -> << CharsOf(LOWERCASE) \cup CharsOf(UPPERCASE) \cup CharsOf(DIGITS)
                              \cup {"_"} >>
      [] t.k = "literal" -> << {t.c} >>
      [] OTHER -> <<>>

RECURSIVE Slots(_)
Slots(ts) == IF ts = <<>> THEN <<>> ELSE ConstructSlots(Head(ts)) \o Slots(Tail(ts))

\* three uppercase letters, then four digits
DefaultSlots ==
    [i \in 1..7 |-> IF i <= 3 THEN CharsOf(UPPERCASE) ELSE CharsOf(DIGITS)]

PatternCase(ts) ==
    [constraints |-> << <<"pattern", StrV(PatternText(ts))>> >>, constructs |-> ts,
     slots |-> Slots(ts)]

InitPattern ==
    /\ pc = "pattern"
    /\ ret = None
    /\ now = 0
    /\ \/ /\ arg = [constraints |-> <<>>, constructs |-> <<>>, slots |-> DefaultSlots]
          /\ \E seed \in StreamSeeds : gens = << Generator(seed) >>
       \/ /\ \E ts \in ConstructLists : arg = PatternCase(ts)
          /\ \E seed \in Seeds : gens = << Generator(seed) >>

GenerateStringPattern ==
    /\ pc = "pattern"
    /\ ret = None
    /\ ValueCall(generate_value(gens[1], "string_pattern", arg.constraints, now))
    /\ UNCHANGED <<pc, arg, now>>

NextPattern == GenerateStringPattern

SpecPattern == InitPattern /\ [][NextPattern]_vars

PatternDone == pc = "pattern" /\ IsSome(ret)

\* C22: for a pattern made of bracketed classes (single characters and ascending
\* ranges) with or without a count {n}, \d, \w, literal characters and the
\* metacharacters . + * ? ^ $ | ( ) { }, the result holds, in pattern order, n
\* characters of each class (one without a count), one digit per \d, one word
\* character per \w and each literal as written, and nothing for a metacharacter;
\* without a pattern the result is three uppercase letters and four digits.
C22_PatternExpansion ==
    PatternDone =>
        /\ Get(ret).error = ""
        /\ Get(ret).value.k = "str"
        /\ Len(Get(ret).value.s) = Len(arg.slots)
        /\ \A i \in 1..Len(arg.slots) : Char(Get(ret).value.s, i) \in arg.slots[i]

\* a class with a count, a dropped parenthesis and \d in one pattern
C22_Witness ==
    /\ PatternDone
    /\ DictGet(arg.constraints, "pattern", NullV) = StrV("[x]{2}(\\d")
    /\ Len(Get(ret).value.s) = 3
    /\ SubSeq(Get(ret).value.s, 1, 2) = "xx"

FallbackDone == pc = "fallback" /\ IsSome(ret)

\* the bound a generator works with: the constraint of the plan entry, or the
\* generator's own default (in hundredths) when the entry has none
Effective(field_plan, key, default) ==
    IF HasKey(field_plan.constraints, key)
    THEN Hundredths(Lookup(field_plan.constraints, key)) ELSE default

\* a bound of the field when it is present, else the default, in hundredths
Seeded(bound, default) == IF IsSome(bound) THEN 100 * Get(bound) ELSE default

\* C23: the constraints of a fallback entry come from the field's own min_value,
\* max_value, min_length, max_length when present, and are otherwise the generator
\* defaults: 0 to 1000 for int_range and numeric_range, 5 to 20 for the length of a
\* string, 0.01 to 9999.99 for currency.
C23_FallbackConstraints ==
    FallbackDone =>
        \A i \in 1..Len(arg) :
            LET field == arg[i]
                entry == Get(ret).fields[i]
            IN  /\ entry.generator_type \in {"int_range", "numeric_range"} =>
                     /\ Effective(entry, "min", 0) = Seeded(field.min_value, 0)
                     /\ Effective(entry, "max", 100000) = Seeded(field.max_value, 100000)
                /\ entry.generator_type = "string" =>
                     /\ Effective(entry, "min_length", 500) = Seeded(field.min_length, 500)
                     /\ Effective(entry, "max_length", 2000) = Seeded(field.max_length, 2000)
                /\ entry.generator_type = "currency" =>
                     /\ Effective(entry, "min", 1) = Seeded(field.min_value, 1)
                     /\ Effective(entry, "max", 999999) = Seeded(field.max_value, 999999)

\* a length of the field when it is present and not 0, else the default
SeededLength(bound, default) ==
    IF IsSome(bound) /\ Get(bound) # 0 THEN 100 * Get(bound) ELSE default

\* what the builder does: int_range and numeric_range take the field's bounds or 0
\* and 1000; a string takes the field's lengths unless absent or 0, else 5 and 50;
\* currency is always 0 to 10000, whatever the field's bounds.
FallbackConstraintsAsBuilt ==
    FallbackDone =>
        \A i \in 1..Len(arg) :
            LET field == arg[i]
                entry == Get(ret).fields[i]
            IN  /\ entry.generator_type \in {"int_range", "numeric_range"} =>
                     /\ Effective(entry, "min", 0) = Seeded(field.min_value, 0)
                     /\ Effective(entry, "max", 100000) = Seeded(field.max_value, 100000)
                /\ entry.generator_type = "string" =>
                     /\ Effective(entry, "min_length", 500) = SeededLength(field.min_length, 500)
                     /\ Effective(entry, "max_length", 2000) = SeededLength(field.max_length, 5000)
                /\ entry.generator_type = "currency" =>
                     /\ Effective(entry, "min", 1) = 0
                     /\ Effective(entry, "max", 999999) = 1000000

(***************************************************************************)
(* generators.generate_sample_values on the field list normalize_schema    *)
(* returns for a document: DataGenerator(seed), then one generate_payload  *)
(* per sample with a reset_seed() before every sample but the first.  The  *)
(* seeds that DataGenerator(None) and reset_seed() draw from the module's  *)
(* random are the inputs `draws` (draws[1] for the constructor, draws[i+1] *)
(* for the reset before sample i+1).  `ret` is the list of the calls made  *)
(* with the arguments in `arg`, all at the same instant.                   *)
(***************************************************************************)
MaxCount == 2
MaxSampleCalls == 2

Sample(call) == [error |-> call.error, value |-> call.value]

RECURSIVE SamplesFrom(_, _, _, _, _, _, _)
\* the body of the loop once generate_payload has returned or raised
Sampled(call, i, count, draws, clock, made) ==
    IF call.error # "" THEN [error |-> call.error, made |-> Append(made, Sample(call))]
    ELSE SamplesFrom(call.g, call.plan, i + 1, count, draws, clock, Append(made, Sample(call)))

SamplesFrom(g, plan, i, count, draws, clock, made) ==
    IF i >= count THEN [error |-> "", made |-> made]
    ELSE Sampled(generate_payload(IF i > 0 THEN Generator(draws[i + 1]) ELSE g, plan, clock),
                 i, count, draws, clock, made)

generate_sample_values(schema_fields, count, seed, draws, clock) ==
    SamplesFrom(Generator(IF IsSome(seed) THEN Get(seed) ELSE draws[1]),
                [create_fallback_plan(schema_fields) EXCEPT !.seed = seed],
                0, count, draws, clock, <<>>)

PropertiesDoc(props) == [Root0 EXCEPT !.properties = Some(props)]

SampleProps ==
    { <<"quantity", DictEntry([TypeDef("integer") EXCEPT !.minimum = lo, !.maximum = hi])>> :
        lo \in {None, Some(5), Some(2000)}, hi \in {None, Some(9)} }
    \cup { <<"ratio", DictEntry([TypeDef("number") EXCEPT !.minimum = lo, !.maximum = hi])>> :
             lo \in {None, Some(5), Some(2000)}, hi \in {None, Some(9)} }
    \cup { <<"notes", DictEntry([TypeDef("string") EXCEPT !.minLength = lo, !.maxLength = hi])>> :
             lo \in {None, Some(1), Some(60)}, hi \in {None, Some(2), Some(8)} }
    \cup { <<"email", DictEntry(TypeDef("string"))>>,
           <<"geo.point", DictEntry(TypeDef("string"))>>,
           <<"created_timestamp", DictEntry(TypeDef("string"))>>,
           <<"status", DictEntry([TypeDef("string") EXCEPT !.enum = Some(<<"a", "b">>)])>>,
           <<"active", StrEntry("boolean")>> }

SampleDocs ==
    { PropertiesDoc(<<p>>) : p \in SampleProps }
    \cup { PropertiesDoc(<<p, q>>) :
             p \in { s \in SampleProps : s[1] = "quantity" },
             q \in { s \in SampleProps : s[1] \in {"email", "status", "geo.point"} } }

InitSamples ==
    /\ pc = "samples"
    /\ \E doc \in SampleDocs, count \in 1..MaxCount, seed \in SeedArguments :
         arg = [schema_fields |-> Get(normalize_schema(doc).fields), count |-> count,
                seed |-> seed]
    /\ ret = <<>>
    /\ now = 0
    /\ gens = <<>>

GenerateSampleValues(draws) ==
    /\ pc = "samples"
    /\ Len(ret) < MaxSampleCalls
    /\ ret' = Append(ret, generate_sample_values(arg.schema_fields, arg.count, arg.seed,
                                                 draws, now))
    /\ UNCHANGED <<pc, arg, now, gens>>

NextSamples == \E draws \in [1..MaxCount -> Seeds] : GenerateSampleValues(draws)

SpecSamples == InitSamples /\ [][NextSamples]_vars

SampleCalls == IF pc = "samples" THEN 1..Len(ret) ELSE {}

TopLevelKeys(sample) == { sample.e[i][1] : i \in 1..Len(sample.e) }

\* C24: generating from the fallback plan of a normalized field list raises no
\* error and every record has exactly one top-level key per field, whatever
\* bounds the fields declare.
C24_FallbackNeverFails ==
    \A c \in SampleCalls :
        /\ ret[c].error = ""
        /\ \A k \in 1..Len(ret[c].made) :
             /\ ret[c].made[k].value.k = "map"
             /\ TopLevelKeys(ret[c].made[k].value)
                  = { arg.schema_fields[i].field_name : i \in 1..Len(arg.schema_fields) }

\* the entry of the fallback plan draws from an empty range
EmptyRange(entry) ==
    \/ /\ entry.generator_type = "int_range"
       /\ Effective(entry, "min", 0) > Effective(entry, "max", 100000)
    \/ /\ entry.generator_type = "string"
       /\ Effective(entry, "min_length", 500) > Effective(entry, "max_length", 2000)

\* the entry may ask the text provider for fewer characters than it gives
ShortText(entry) ==
    entry.generator_type = "string" /\ 2 * Effective(entry, "min_length", 500) < 100 * MinTextChars

\* what holds: the only error is ValueError, raised only when a field's minimum
\* exceeds the maximum the plan ends up with or a string may be shorter than the
\* text provider allows; a record that is returned holds every field at its path.
FallbackFailsOnlyOnRange ==
    \A c \in SampleCalls :
        LET entries == create_fallback_plan(arg.schema_fields).fields
        IN  /\ ret[c].error \in {"", "ValueError"}
            /\ ret[c].error = "ValueError" =>
                 \E i \in 1..Len(entries) : EmptyRange(entries[i]) \/ ShortText(entries[i])
            /\ (\E i \in 1..Len(entries) : EmptyRange(entries[i])) => ret[c].error = "ValueError"
            /\ \A k \in 1..Len(ret[c].made) :
                 ret[c].made[k].error = "" =>
                     \A i \in 1..Len(entries) :
                         At(ret[c].made[k].value, split(entries[i].field_name, ".")) # Missing

\* C26: two calls with the same field list, the same count and the same non-null
\* seed return the same list of samples.
C26_SamplesReproducible ==
    (pc = "samples" /\ Len(ret) >= 2 /\ IsSome(arg.seed)) => ret[1] = ret[2]

\* what holds: with a non-null seed the first sample of both calls is the same
FirstSampleReproducible ==
    (pc = "samples" /\ Len(ret) >= 2 /\ IsSome(arg.seed)) => ret[1].made[1] = ret[2].made[1]

(***************************************************************************)
(* generators.generate_from_plan: DataGenerator(seed or plan.seed), then   *)
(* generate_payload.  `seed or plan.seed` is plan.seed when seed is None   *)
(* or 0; DataGenerator(None) draws its seed, the input `drawn`.            *)
(***************************************************************************)
SeedOr(seed, plan_seed) == IF IsSome(seed) /\ Get(seed) # 0 THEN seed ELSE plan_seed

generate_from_plan(plan, seed, drawn, clock) ==
    generate_payload(Generator(IF IsSome(SeedOr(seed, plan.seed))
                               THEN Get(SeedOr(seed, plan.seed)) ELSE drawn),
                     plan, clock)

InitFromPlan ==
    /\ pc = "from_plan"
    /\ \E fields \in PlanFields, plan_seed \in SeedArguments, seed \in SeedArguments :
         arg = [plan |-> GenerationPlan(fields, plan_seed), seed |-> seed]
    /\ ret = None
    /\ now = 0
    /\ gens = <<>>

GenerateFromPlan(drawn) ==
    /\ pc = "from_plan"
    /\ ret = None
    /\ ret' = Some(Sample(generate_from_plan(arg.plan, arg.seed, drawn, now)))
    /\ UNCHANGED <<pc, arg, now, gens>>

NextFromPlan == \E drawn \in Seeds : GenerateFromPlan(drawn)

SpecFromPlan == InitFromPlan /\ [][NextFromPlan]_vars

FromPlanDone == pc = "from_plan" /\ IsSome(ret)

\* DataGenerator(s).generate_payload(plan)
PayloadOfSeed(s) == Sample(generate_payload(Generator(s), arg.plan, now))

\* C25: generate_from_plan(plan, seed=s) returns what DataGenerator(s).generate_payload(plan)
\* returns, for every integer s and whatever plan.seed is; plan.seed is the seed
\* only when the seed argument is omitted.
C25_SeedArgumentWins ==
    FromPlanDone =>
        /\ IsSome(arg.seed) => Get(ret) = PayloadOfSeed(Get(arg.seed))
        /\ (arg.seed = None /\ IsSome(arg.plan.seed)) => Get(ret) = PayloadOfSeed(Get(arg.plan.seed))

\* what holds: a seed argument other than 0 is the seed; with seed 0 or no seed
\* argument plan.seed is the seed when the plan has one
SeedArgumentWinsUnlessZero ==
    FromPlanDone =>
        /\ (IsSome(arg.seed) /\ Get(arg.seed) # 0) => Get(ret) = PayloadOfSeed(Get(arg.seed))
        /\ ((arg.seed = None \/ arg.seed = Some(0)) /\ IsSome(arg.plan.seed)) =>
               Get(ret) = PayloadOfSeed(Get(arg.plan.seed))

(***************************************************************************)
(* Documents of the `paths` dialect with up to three paths.  Path i is one *)
(* of six shapes; the name of every property tells the path and the        *)
(* operation it is written at (p2a: path 2, first body operation; r2: the  *)
(* schema the $ref of path 2 points to).                                   *)
(***************************************************************************)
Tagged(name) == Some(<< <<name, DictEntry(TypeDef("string"))>> >>)

Inline(name) == Operation([Node0 EXCEPT !.properties = Tagged(name)])

PathShapes == 1..6

PathShape(c, i) ==
    LET n == IntToStr(i)
    IN  CASE c = 1 -> PathItem(<< <<"get", Inline("p" \o n \o "g")>> >>)
          [] c = 2 -> PathItem(<< <<"post", Inline("p" \o n \o "a")>> >>)
          [] c = 3 -> PathItem(<< <<"get", Operation(Node0)>>,
                                  <<"PUT", Operation([Node0 EXCEPT !.ref = Some("#/x-" \o n)])>> >>)
          [] c = 4 -> PathItem(<< <<"patch", Operation([Node0 EXCEPT !.ref = Some("#/missing")])>> >>)
          [] c = 5 -> PathItem(<< <<"post", Inline("p" \o n \o "a")>>,
                                  <<"put", Inline("p" \o n \o "b")>> >>)
          [] OTHER -> OtherEntry

PathsDoc(shapes) ==
    [Root0 EXCEPT
       !.paths = Some([i \in 1..Len(shapes) |-> <<"/p" \o IntToStr(i), PathShape(shapes[i], i)>>]),
       !.extra = [i \in 1..3 |-> <<"x-" \o IntToStr(i),
                                   SchemaDict(Tagged("r" \o IntToStr(i)), None)>>]]

PathsDocs ==
    { PathsDoc(shapes) :
        shapes \in { <<a>> : a \in PathShapes } \cup (PathShapes \X PathShapes)
                     \cup (PathShapes \X PathShapes \X PathShapes) }

InitPaths ==
    /\ pc = "normalize"
    /\ arg \in PathsDocs
    /\ ret = None
    /\ now = 0
    /\ gens = <<>>

NextPaths == Normalize

SpecPaths == InitPaths /\ [][NextPaths]_vars

\* operation j of path i is a POST, PUT or PATCH with a JSON request-body schema
\* that has properties, inline or behind a $ref that resolves
BodyOperation(d, i, j) ==
    LET item == Get(d.paths)[i][2]
    IN  /\ item.kind = "dict"
        /\ j \in 1..Len(item.methods)
        /\ lower(item.methods[j][1]) \in {"post", "put", "patch"}
        /\ item.methods[j][2].kind = "dict"
        /\ IsSome(OperationHit(d, item.methods[j][2].schema))

BodyOperations(d) ==
    { ij \in (1..Len(Get(d.paths))) \X (1..2) : BodyOperation(d, ij[1], ij[2]) }

Earlier(a, b) == a[1] < b[1] \/ (a[1] = b[1] /\ a[2] <= b[2])

FirstBodyOperation(d) == CHOOSE a \in BodyOperations(d) : \A b \in BodyOperations(d) : Earlier(a, b)

\* the property names at operation ij
BodyNames(d, ij) ==
    PropNames(Get(OperationHit(d, Get(d.paths)[ij[1]][2].methods[ij[2]][2].schema)).properties)

Names(fields) == { fields[i].field_name : i \in 1..Len(fields) }

\* C27: in the `paths` dialect the fields are those of the first POST/PUT/PATCH
\* operation, in document order, that has a JSON request-body schema; operations
\* of later paths do not change them.
C27_FirstOperationWins ==
    (pc = "normalized" /\ BodyOperations(arg) # {}) =>
        /\ ret.normalized.error = ""
        /\ Names(Get(ret.normalized.fields)) = BodyNames(arg, FirstBodyOperation(arg))

\* the first such operation of the last path that has one
LastPathOperation(d) ==
    CHOOSE a \in BodyOperations(d) :
        \A b \in BodyOperations(d) : b[1] < a[1] \/ (b[1] = a[1] /\ a[2] <= b[2])

\* what holds: the fields are those of the last path that has such an operation
\* (of its first such operation)
LastPathWins ==
    (pc = "normalized" /\ BodyOperations(arg) # {}) =>
        /\ ret.normalized.error = ""
        /\ Names(Get(ret.normalized.fields)) = BodyNames(arg, LastPathOperation(arg))

\* C28: the schema-format error is raised only if no dialect location of the
\* document holds properties: a document whose earlier-ranked key is present
\* without properties is normalized from a later-ranked location that has some.
C28_ErrorOnlyWithoutProperties ==
    (pc = "normalized" /\ ret.normalized.error = "YAMLSchemaParseError") =>
        \A k \in 1..7 : LocationNames(arg, k) = {}

\* what holds: the error is raised exactly when the first location present in the
\* document yields no property, whatever the later locations hold
ErrorIffFirstLocationEmpty ==
    pc = "normalized" =>
        (ret.normalized.error = "YAMLSchemaParseError"
            <=> Len(SelectFrom(arg, Dialect(arg)).properties) = 0)

(***************************************************************************)
(* main.py: /oauth/initiate and /oauth/callback over oauth_state_store.    *)
(* The handlers run on one event loop, so a handler runs without           *)
(* interruption up to its `await`: the callback pops the state, then       *)
(* awaits the token exchange, whose answer arrives in a later step while   *)
(* other requests are served.  `arg` is the server: the store, how often   *)
(* each state value was issued, how many token exchanges were started per  *)
(* state value, and the exchanges in flight; `ret` is the last response.   *)
(* generate_state() may return any value, one issued before included.      *)
(***************************************************************************)
MaxRequests == 4

OAuthStates == {"s1", "s2"}
CodeVerifiers == {"v1", "v2"}

\* a lookup that leaves the entry in the store
DictKeep(d, key) == d

\* dict.pop(key, None): the dict without the key
DictPop(d, key) == SelectSeq(d, LAMBDA entry : entry[1] # key)

InitOAuth ==
    /\ pc = "oauth"
    /\ arg = [oauth_state_store |-> <<>>,
              issued |-> [s \in OAuthStates |-> 0],
              exchanges |-> [s \in OAuthStates |-> 0],
              pending |-> <<>>,
              requests |-> 0]
    /\ ret = None
    /\ now = 0
    /\ gens = <<>>

Response(request, state, status, detail, before, exchanged) ==
    [request |-> request, state |-> state, status |-> status, detail |-> detail,
     before |-> before, exchanged |-> exchanged]

initiate_oauth(state, code_verifier) ==
    /\ pc = "oauth"
    /\ arg.requests < MaxRequests
    /\ arg' = [arg EXCEPT
                 !.oauth_state_store = DictPut(@, state, [code_verifier |-> code_verifier]),
                 !.issued[state] = @ + 1,
                 !.requests = @ + 1]
    /\ ret' = Some(Response("initiate", state, 200, "", arg.oauth_state_store, FALSE))
    /\ UNCHANGED <<pc, now, gens>>

\* the callback up to `await client.exchange_code_for_tokens(...)`
oauth_callback(code, state, error) ==
    /\ pc = "oauth"
    /\ arg.requests < MaxRequests
    /\ IF error # ""
       THEN /\ arg' = [arg EXCEPT !.requests = @ + 1]
            /\ ret' = Some(Response("callback", state, 200, "OAuth Error",
                                    arg.oauth_state_store, FALSE))
       ELSE IF code = "" \/ state = ""
       THEN /\ arg' = [arg EXCEPT !.requests = @ + 1]
            /\ ret' = Some(Response("callback", state, 400, "Missing code or state parameter",
                                    arg.oauth_state_store, FALSE))
       ELSE IF ~HasKey(arg.oauth_state_store, state)
       THEN /\ arg' = [arg EXCEPT !.requests = @ + 1,
                                  !.oauth_state_store = DictPop(@, state)]
            /\ ret' = Some(Response("callback", state, 400, "Invalid or expired state",
                                    arg.oauth_state_store, FALSE))
       ELSE /\ arg' = [arg EXCEPT
                         !.requests = @ + 1,
                         !.oauth_state_store = DictPop(@, state),
                         !.exchanges[state] = @ + 1,
                         !.pending = Append(@, [state |-> state, code |-> code,
                                                code_verifier |->
                                                  Lookup(arg.oauth_state_store, state).code_verifier])]
            /\ ret' = Some(Response("callback", state, 0, "awaiting token exchange",
                                    arg.oauth_state_store, TRUE))
    /\ UNCHANGED <<pc, now, gens>>

\* the token endpoint answers exchange k: the callback resumes and responds
ExchangeReturns(k, ok) ==
    /\ pc = "oauth"
    /\ k \in 1..Len(arg.pending)
    /\ arg' = [arg EXCEPT !.pending = [i \in 1..(Len(@) - 1) |-> IF i < k THEN @[i] ELSE @[i + 1]]]
    /\ ret' = Some(Response("exchange", arg.pending[k].state, 200,
                            IF ok THEN "Authentication Successful!" ELSE "Authentication Failed",
                            arg.oauth_state_store, FALSE))
    /\ UNCHANGED <<pc, now, gens>>

NextOAuth ==
    \/ \E state \in OAuthStates, code_verifier \in CodeVerifiers : initiate_oauth(state, code_verifier)
    \/ \E code \in {"", "c"}, state \in OAuthStates \cup {""}, error \in {"", "access_denied"} :
         oauth_callback(code, state, error)
    \/ \E k \in 1..MaxRequests, ok \in BOOLEAN : ExchangeReturns(k, ok)

SpecOAuth == InitOAuth /\ [][NextOAuth]_vars

OAuthResponse == Get(ret)

\* a callback that carries a code and a state and no error
FullCallback ==
    /\ pc = "oauth" /\ IsSome(ret)
    /\ OAuthResponse.request = "callback"
    /\ OAuthResponse.state # ""
    /\ OAuthResponse.status \in {0, 400}
    /\ OAuthResponse.detail # "Missing code or state parameter"

\* C29: a state value leads to no more token exchanges than the times it was
\* issued (at most one when it was issued once), whether the exchange succeeds or
\* fails; a callback whose state is not in the store (never issued, or already
\* consumed) is answered 400 "Invalid or expired state" and starts no exchange,
\* and a callback that starts an exchange removes its state from the store.
C29_StateSingleUse ==
    pc = "oauth" =>
        /\ \A s \in OAuthStates :
             /\ arg.exchanges[s] <= arg.issued[s]
             /\ HasKey(arg.oauth_state_store, s) => arg.exchanges[s] < arg.issued[s]
        /\ FullCallback =>
             /\ ~HasKey(OAuthResponse.before, OAuthResponse.state) =>
                  /\ OAuthResponse.status = 400
                  /\ OAuthResponse.detail = "Invalid or expired state"
                  /\ ~OAuthResponse.exchanged
             /\ OAuthResponse.exchanged =>
                  /\ HasKey(OAuthResponse.before, OAuthResponse.state)
                  /\ ~HasKey(arg.oauth_state_store, OAuthResponse.state)

\* s1 was issued once, its exchange was started and has failed or succeeded, and a
\* second callback with s1 has just been rejected
C29_Witness ==
    /\ FullCallback
    /\ OAuthResponse.state = "s1"
    /\ arg.issued["s1"] = 1 /\ arg.exchanges["s1"] = 1
    /\ arg.pending = <<>>
    /\ OAuthResponse.status = 400
    /\ OAuthResponse.detail = "Invalid or expired state"

(***************************************************************************)
(* api.SessionStore: Redis with an in-memory fallback.  `arg` holds the    *)
(* store (`connected`: _redis is not None; `redis`: the keys of the Redis  *)
(* server as key -> JSON text; `memory`: _memory) and, per session id, the *)
(* last set or delete that returned; `ret` is the last call.  Every Redis  *)
(* call of a method succeeds or raises, as the input `ok` says.  Session   *)
(* data are dicts of strings to integers, which json.dumps / json.loads    *)
(* give back unchanged; JsonText marks a value as the text Redis holds.    *)
(***************************************************************************)
MaxOps == 3

SessionIds == {"s1", "s2"}
SessionData == { << <<"a", 1>> >>, << <<"a", 2>> >> }
SessionUpdates == { << <<"b", 1>> >> }

JsonText(data) == [json |-> data]
JsonLoads(text) == text.json

\* f"dc_session:{session_id}"
SessionKey(session_id) == "dc_session:" \o session_id

InitSessions ==
    /\ pc = "sessions"
    /\ \E connected \in BOOLEAN :
         arg = [connected |-> connected, redis |-> <<>>, memory |-> <<>>,
                last |-> [id \in SessionIds |-> [op |-> "none", data |-> <<>>]],
                failed |-> FALSE, ops |-> 0]
    /\ ret = None
    /\ now = 0
    /\ gens = <<>>

\* SessionStore.get on store s: the session, or None
StoreGet(s, session_id, ok) ==
    IF s.connected /\ ok
    THEN IF HasKey(s.redis, SessionKey(session_id))
         THEN Some(JsonLoads(Lookup(s.redis, SessionKey(session_id))))
         ELSE None
    ELSE IF HasKey(s.memory, session_id) THEN Some(Lookup(s.memory, session_id)) ELSE None

\* SessionStore.set on store s: the store afterwards
StoreSet(s, session_id, data, ok) ==
    IF s.connected /\ ok
    THEN [s EXCEPT !.redis = DictPut(@, SessionKey(session_id), JsonText(data))]
    ELSE [s EXCEPT !.memory = DictPut(@, session_id, data)]

\* SessionStore.delete on store s
StoreDelete(s, session_id, ok) ==
    [s EXCEPT !.redis = IF s.connected /\ ok THEN DictPop(@, SessionKey(session_id)) ELSE @,
              !.memory = DictPop(@, session_id)]

\* dict.update(updates)
RECURSIVE DictUpdate(_, _)
DictUpdate(d, updates) ==
    IF updates = <<>> THEN d
    ELSE DictUpdate(DictPut(d, Head(updates)[1], Head(updates)[2]), Tail(updates))

\* session.update(updates) changes the dict that get returned: the one _memory
\* holds when get read it from there
Merged(s, session_id, session, updates, from_memory) ==
    IF from_memory THEN [s EXCEPT !.memory = DictPut(@, session_id, DictUpdate(session, updates))]
    ELSE s

Counted(s, op, session_id, data, failure) ==
    [s EXCEPT !.ops = @ + 1,
              !.failed = @ \/ (s.connected /\ failure),
              !.last[session_id] = IF op = "none" THEN @ ELSE [op |-> op, data |-> data]]

Called(op, session_id, value, error) ==
    ret' = Some([op |-> op, session_id |-> session_id, value |-> value, error |-> error])

SessionGet(session_id, ok) ==
    /\ pc = "sessions"
    /\ arg.ops < MaxOps
    /\ arg' = Counted(arg, "none", session_id, <<>>, ~ok)
    /\ Called("get", session_id, StoreGet(arg, session_id, ok), "")
    /\ UNCHANGED <<pc, now, gens>>

SessionSet(session_id, data, ok) ==
    /\ pc = "sessions"
    /\ arg.ops < MaxOps
    /\ arg' = Counted(StoreSet(arg, session_id, data, ok), "set", session_id, data, ~ok)
    /\ Called("set", session_id, None, "")
    /\ UNCHANGED <<pc, now, gens>>

SessionDelete(session_id, ok) ==
    /\ pc = "sessions"
    /\ arg.ops < MaxOps
    /\ arg' = Counted(StoreDelete(arg, session_id, ok), "delete", session_id, <<>>, ~ok)
    /\ Called("delete", session_id, None, "")
    /\ UNCHANGED <<pc, now, gens>>

\* update: get, KeyError when there is no session, else merge and set
SessionUpdate(session_id, updates, get_ok, set_ok) ==
    /\ pc = "sessions"
    /\ arg.ops < MaxOps
    /\ LET session == StoreGet(arg, session_id, get_ok)
           from_memory == ~(arg.connected /\ get_ok)
       IN  IF session = None
           THEN /\ arg' = Counted(arg, "none", session_id, <<>>, ~get_ok)
                /\ Called("update", session_id, None, "KeyError")
           ELSE /\ arg' = Counted(StoreSet(Merged(arg, session_id, Get(session), updates,
                                                  from_memory),
                                           session_id, DictUpdate(Get(session), updates), set_ok),
                                  "set", session_id, DictUpdate(Get(session), updates),
                                  ~get_ok \/ ~set_ok)
                /\ Called("update", session_id, Some(DictUpdate(Get(session), updates)), "")
    /\ UNCHANGED <<pc, now, gens>>

NextSessions ==
    \/ \E session_id \in SessionIds, ok \in BOOLEAN : SessionGet(session_id, ok)
    \/ \E session_id \in SessionIds, data \in SessionData, ok \in BOOLEAN :
         SessionSet(session_id, data, ok)
    \/ \E session_id \in SessionIds, ok \in BOOLEAN : SessionDelete(session_id, ok)
    \/ \E session_id \in SessionIds, updates \in SessionUpdates, get_ok \in BOOLEAN,
          set_ok \in BOOLEAN : SessionUpdate(session_id, updates, get_ok, set_ok)

SpecSessions == InitSessions /\ [][NextSessions]_vars

GetReturned == pc = "sessions" /\ IsSome(ret) /\ Get(ret).op = "get"

\* what get must return for the id: the data of the last set, None after a delete
ReadsLastWrite ==
    LET last == arg.last[Get(ret).session_id]
    IN  /\ last.op = "set" => Get(ret).value = Some(last.data)
        /\ last.op = "delete" => Get(ret).value = None

\* C30: after set(id, data) has returned every get(id) returns data until the
\* next set or delete of the id, and after delete(id) get(id) returns None,
\* whichever Redis calls succeed and fail.
C30_ReadYourWrite == GetReturned => ReadsLastWrite

\* what holds: a store without Redis, and a store none of whose Redis calls has
\* failed so far, return the last write
ReadYourWriteWithoutFailure ==
    (GetReturned /\ (~arg.connected \/ ~arg.failed)) => ReadsLastWrite

Init ==
    \/ InitNormalize
    \/ InitPrimaryKey
    \/ InitMapType
    \/ InitConstraints

Next ==
    \/ Normalize
    \/ Project
    \/ Renormalize
    \/ IsLikelyPrimaryKey
    \/ MapType
    \/ ExtractConstraints

Spec == Init /\ [][Next]_vars
====
